---- MODULE Spec2Model ----
(***************************************************************************)
(* A model of the Astra mandatory pipeline (src/app/astra): the capability *)
(* agent, the safety enforcer, the rules engine, the consent manager and   *)
(* the orchestrator AstraPipeline.process().                               *)
(*                                                                         *)
(* Conventions.                                                            *)
(*  - A Python value that may be None / an absent dict key is an "option": *)
(*    the empty set (None, absent) or a one-element set {v}.               *)
(*    Get(o, d) is dict.get(key, d).                                       *)
(*  - A user text is the set of vocabulary phrases that occur in it; a     *)
(*    regular expression \b<phrase>\b (or a substring test) matches a text *)
(*    exactly when the phrase is in that set.                              *)
(*  - A response text is a sequence of segments (sentences, disclaimers)   *)
(*    with the language it is written in.                                  *)
(*  - Confidence values are in tenths (10 is 1.0, 9 is 0.9, 7 is 0.7).     *)
(***************************************************************************)
EXTENDS Integers, Sequences, FiniteSets, TLC

VARIABLES
    cfg,            \* the loaded capabilities.yaml (fixed after construction)
    svc,            \* which collaborators the pipeline was constructed with
    pc,             \* position of the current process() run
    inp,            \* arguments of the current process() run
    loc,            \* local variables of the current process() run
    audit_log,      \* the audit_log dict of the current run
    saved,          \* the _save_audit_log invocations of the current run
    resp,           \* option: the dict returned by process()
    exc,            \* option: the exception caught at the pipeline boundary
    calls,          \* the collaborator calls made by the current run, in order
    runs,           \* number of process() runs started
    consent_cache,  \* ConsentManager.consent_cache
    db,             \* the consent records of the persistence store
    now,            \* the clock (in days)
    ops,            \* number of consent operations made
    arg,            \* arguments of the function under check (unit specifications)
    res,            \* option: what the function under check returned
    trail,          \* per consent key, what has been done to it so far (history)
    mem,            \* the state of the component under check (RAGMemory, RateLimiter, GPUQuotaManager)
    tasks           \* the calls in flight, each with its position and locals

vars == <<cfg, svc, pc, inp, loc, audit_log, saved, resp, exc, calls, runs, consent_cache, db, now, ops, arg, res, trail, mem, tasks>>

consent_vars == <<consent_cache, db, now>>

aux_vars == <<trail, mem, tasks>>

unit_vars == <<ops, arg, res, aux_vars>>

(***************************************************************************)
(* Bounds of the model.                                                    *)
(***************************************************************************)
MaxPhrases == 2
\* a text holds at most this many vocabulary phrases

MaxRuns == 2
\* process() runs per behaviour

MaxNow == 1
\* the clock stops here

MaxDuration == 1
\* duration_days of a grant is 0..MaxDuration

MaxOps == 3
\* consent operations per behaviour

\* The calls started on one ConsentManager.
MaxCalls == 3

\* top_k of a retrieval is 1..MaxTopK.
MaxTopK == 2

\* A response handed to the sanitizer holds at most this many segments.
MaxSegments == 2

\* Calls made on one RateLimiter or GPUQuotaManager, and runs of process()
\* on one RateLimiter.
MaxChecks == 4

\* Times the clock of the rate limiter advances.
MaxTicks == 2

\* The daily_limit a GPUQuotaManager is built with.
DailyLimit == 3

(***************************************************************************)
(* Options and sequences.                                                  *)
(***************************************************************************)
NoneV == {}

Get(o, d) == IF o = {} THEN d ELSE CHOOSE v \in o : TRUE

The(o) == CHOOSE v \in o : TRUE

Range(s) == {s[i] : i \in 1..Len(s)}

(***************************************************************************)
(* Texts.                                                                  *)
(***************************************************************************)
Phrases == {"chest pain", "diagnose me", "prescribe", "book appointment", "explain dosha", "log symptom", "dosage"}

Texts == {t \in SUBSET Phrases : Cardinality(t) <= MaxPhrases}

(***************************************************************************)
(* capabilities.yaml.  The file is read by CapabilityAgent but is not part *)
(* of the sources; its entries are modelled from the specification (the    *)
(* capability record of its data model) and from the capability names the  *)
(* code refers to.  The forbidden capability DIAGNOSIS carries an          *)
(* intent_class and a requires_ai value chosen freely, and the refusal     *)
(* library is chosen among several shapes.                                 *)
(***************************************************************************)
IntentClasses == {"CLASS_A", "CLASS_B", "CLASS_B_PLUS", "CLASS_C", "CLASS_D"}

CapOrder == <<"GENERAL_WELLNESS_CHAT", "AYURVEDA_EDUCATION", "SYMPTOM_DOCUMENTATION", "APPOINTMENT_BOOKING", "DIAGNOSIS", "PRESCRIPTION", "EMERGENCY_REDIRECT">>

CapNames == Range(CapOrder)

CapDef(ic, forb, trig, ai, prio, rules, tmpl, auto, rag) ==
    [intent_class |-> ic, forbidden |-> forb, triggers |-> trig, requires_ai |-> ai, priority |-> prio, safety_rules |-> rules, response_template |-> tmpl, automation |-> auto, rag_context |-> rag, reason |-> NoneV]

Capabilities(diag_class, diag_ai) ==
    [c \in CapNames |->
        CASE c = "GENERAL_WELLNESS_CHAT" ->
                CapDef({"CLASS_A"}, NoneV, NoneV, {TRUE}, NoneV, {<<"no_diagnosis", "must_recommend_doctor">>}, NoneV, NoneV, NoneV)
          [] c = "AYURVEDA_EDUCATION" ->
                CapDef({"CLASS_B_PLUS"}, NoneV, {<<"explain dosha">>}, {TRUE}, {3}, {<<"no_dosage_recommendation">>}, NoneV, NoneV, NoneV)
          [] c = "SYMPTOM_DOCUMENTATION" ->
                CapDef({"CLASS_A"}, {FALSE}, {<<"log symptom">>}, {TRUE}, NoneV, NoneV, NoneV, NoneV, {"chat_history_summary"})
          [] c = "APPOINTMENT_BOOKING" ->
                CapDef({"CLASS_A"}, NoneV, {<<"book appointment">>}, {FALSE}, {2}, NoneV, NoneV, {"existing_appointment_system"}, NoneV)
          [] c = "DIAGNOSIS" ->
                CapDef(diag_class, {TRUE}, {<<"diagnose me">>}, diag_ai, {1}, NoneV, NoneV, NoneV, NoneV)
          [] c = "PRESCRIPTION" ->
                CapDef({"CLASS_C"}, {TRUE}, {<<"prescribe">>}, NoneV, NoneV, NoneV, NoneV, NoneV, NoneV)
          [] c = "EMERGENCY_REDIRECT" ->
                CapDef({"CLASS_D"}, NoneV, NoneV, {FALSE}, {1}, NoneV, NoneV, NoneV, NoneV)]

SafetyRules ==
    [r \in {"no_diagnosis", "no_dosage_recommendation", "must_recommend_doctor"} |->
        CASE r = "no_diagnosis" -> [patterns |-> {<<"diagnose me">>}, replacement |-> NoneV]
          [] r = "no_dosage_recommendation" -> [patterns |-> {<<"dosage">>}, replacement |-> {"DOSAGE_REPLACEMENT"}]
          [] r = "must_recommend_doctor" -> [patterns |-> NoneV, replacement |-> NoneV]]

\* One entry of the refusal library: a dict, possibly empty, possibly without
\* some keys.
RefusalEntry(msgs, code, handoff, hard_stop) ==
    [messages |-> msgs, refusal_code |-> code, handoff |-> handoff, hard_stop |-> hard_stop]

EmptyEntry == RefusalEntry(NoneV, NoneV, NoneV, NoneV)

RefusalEntries ==
    { RefusalEntry({<<"REFUSAL_MSG_1", "REFUSAL_MSG_2">>}, {"REF_CODE"}, {TRUE}, {TRUE}),
      RefusalEntry({<<"REFUSAL_MSG_1">>}, NoneV, NoneV, NoneV),
      RefusalEntry(NoneV, {"REF_CODE"}, {FALSE}, NoneV),
      RefusalEntry({<< >>}, {"REF_CODE"}, {TRUE}, {TRUE}),
      EmptyEntry }

RefusalKeys == {"DIAGNOSIS_CONFIRMATION", "MEDICINE_REQUEST", "DOSAGE_CHANGE", "EMERGENCY"}

\* refusal_library[class][key] is an option of an entry.
WellFormedLibrary ==
    [k \in {"CLASS_C", "CLASS_D"} |->
        [key \in RefusalKeys |->
            IF k = "CLASS_C" /\ key = "DIAGNOSIS_CONFIRMATION"
                THEN {RefusalEntry({<<"REFUSAL_MSG_1", "REFUSAL_MSG_2">>}, {"REF_DIAG_001"}, {TRUE}, {FALSE})}
            ELSE IF k = "CLASS_D" /\ key = "EMERGENCY"
                THEN {RefusalEntry({<<"EMERGENCY_MSG">>}, {"REF_EMG_001"}, {TRUE}, {TRUE})}
            ELSE NoneV]]

\* Libraries with the DIAGNOSIS_CONFIRMATION entry of CLASS_C and the
\* EMERGENCY entry of both classes of any shape, or absent.
Libraries ==
    { [k \in {"CLASS_C", "CLASS_D"} |->
        [key \in RefusalKeys |->
            IF k = "CLASS_C" /\ key = "DIAGNOSIS_CONFIRMATION" THEN d
            ELSE IF key = "EMERGENCY" THEN e
            ELSE NoneV]] :
      d \in {NoneV} \cup {{x} : x \in RefusalEntries}, e \in {NoneV} \cup {{x} : x \in RefusalEntries} }

Config(diag_class, diag_ai, lib) ==
    [capabilities |-> Capabilities(diag_class, diag_ai), safety_rules |-> SafetyRules, refusal_library |-> lib, doctor_handoff_cta |-> {"HANDOFF_CTA"}, post_llm_forbidden |-> {"AI_TREATMENT_TEXT"}]

\* The configurations of the pipeline specification: the forbidden DIAGNOSIS
\* capability without intent_class and requires_ai, as CLASS_C, and as a
\* CLASS_A capability that requires AI.
PipelineConfigs == {Config(NoneV, NoneV, WellFormedLibrary), Config({"CLASS_C"}, {TRUE}, WellFormedLibrary), Config({"CLASS_A"}, {TRUE}, WellFormedLibrary)}

\* The configurations of the safety enforcer's specification.
SafetyConfigs == {Config({"CLASS_C"}, NoneV, lib) : lib \in Libraries}

(***************************************************************************)
(* CapabilityAgent (capability_agent.py).                                  *)
(***************************************************************************)
\* The capabilities whose triggers are compiled as trigger patterns and as
\* forbidden patterns, in the order of the configuration.
_compile_triggers(c) ==
    SelectSeq(CapOrder, LAMBDA n : c.capabilities[n].triggers # {} /\ ~Get(c.capabilities[n].forbidden, FALSE))

_compile_forbidden(c) ==
    SelectSeq(CapOrder, LAMBDA n : Get(c.capabilities[n].forbidden, FALSE) /\ c.capabilities[n].triggers # {})

\* Some pattern of capability n matches the text.
Matches(c, n, text) == Range(The(c.capabilities[n].triggers)) \cap text # {}

emergency_keywords == {"chest pain"}

_is_emergency(text) == \E keyword \in emergency_keywords : keyword \in text

_build_result(c, capability, confidence, trigger) ==
    LET cap_def == c.capabilities[capability]
    IN  [capability |-> capability,
         intent_class |-> Get(cap_def.intent_class, "CLASS_A"),
         confidence |-> confidence,
         matched_trigger |-> trigger,
         requires_ai |-> Get(cap_def.requires_ai, FALSE),
         forbidden |-> Get(cap_def.forbidden, FALSE),
         priority |-> Get(cap_def.priority, 3),
         definition |-> cap_def]

\* Option: the result for the first forbidden capability with a matching pattern.
_check_forbidden(c, text) ==
    LET hit == SelectSeq(_compile_forbidden(c), LAMBDA n : Matches(c, n, text))
    IN  IF hit = << >> THEN NoneV
        ELSE LET cap_def == c.capabilities[hit[1]]
             IN  {[capability |-> hit[1],
                   intent_class |-> Get(cap_def.intent_class, "CLASS_C"),
                   confidence |-> 10,
                   matched_trigger |-> "pattern",
                   requires_ai |-> FALSE,
                   forbidden |-> TRUE,
                   priority |-> Get(cap_def.priority, 1),
                   definition |-> cap_def]}

\* The matches of the non-forbidden capabilities, in the order of the
\* configuration.
_match_triggers(c, text) ==
    LET hit == SelectSeq(_compile_triggers(c), LAMBDA n : Matches(c, n, text))
    IN  [i \in 1..Len(hit) |->
            [capability |-> hit[i],
             intent_class |-> Get(c.capabilities[hit[i]].intent_class, "CLASS_A"),
             confidence |-> 9,
             matched_trigger |-> "pattern",
             requires_ai |-> Get(c.capabilities[hit[i]].requires_ai, FALSE),
             forbidden |-> FALSE,
             priority |-> Get(c.capabilities[hit[i]].priority, 3),
             definition |-> c.capabilities[hit[i]]]]

\* min(matches, key = (priority, -confidence)): the first minimal element.
BestMatch(matches) ==
    LET Less(a, b) == a.priority < b.priority \/ (a.priority = b.priority /\ a.confidence > b.confidence)
        i == CHOOSE k \in 1..Len(matches) :
                /\ \A j \in 1..Len(matches) : ~Less(matches[j], matches[k])
                /\ \A j \in 1..(k - 1) : Less(matches[k], matches[j])
    IN  matches[i]

identify_capability_ForbiddenFirst(c, user_input) ==
    LET forbidden == _check_forbidden(c, user_input)
        matches == _match_triggers(c, user_input)
    IN  IF forbidden # NoneV THEN The(forbidden)
        ELSE IF _is_emergency(user_input) THEN _build_result(c, "EMERGENCY_REDIRECT", 10, "emergency")
        ELSE IF matches # << >> THEN BestMatch(matches)
        ELSE _build_result(c, "GENERAL_WELLNESS_CHAT", 7, "default")

identify_capability(c, user_input) ==
    LET forbidden == _check_forbidden(c, user_input)
        matches == _match_triggers(c, user_input)
    IN  IF _is_emergency(user_input) THEN _build_result(c, "EMERGENCY_REDIRECT", 10, "emergency")
        ELSE IF forbidden # NoneV THEN The(forbidden)
        ELSE IF matches # << >> THEN BestMatch(matches)
        ELSE _build_result(c, "GENERAL_WELLNESS_CHAT", 7, "default")

(***************************************************************************)
(* SafetyEnforcer (safety_enforcer.py).  random.choice makes the refusal   *)
(* message a choice of the run, so enforce is the set of its outcomes.  An *)
(* outcome is the returned dict (raised = {}) or a raised exception.       *)
(***************************************************************************)
Raised(e) == [raised |-> {e}]

SafetyResult(safe, violations, message, handoff, hard_stop, refusal_code) ==
    [raised |-> NoneV, safe |-> safe, violations |-> violations, message |-> message, handoff |-> handoff, hard_stop |-> hard_stop, refusal_code |-> refusal_code]

RuleOrder == <<"no_diagnosis", "no_dosage_recommendation", "must_recommend_doctor">>

default_refusal == [raised |-> NoneV, message |-> "DEFAULT_REFUSAL_MSG", refusal_code |-> "REF_GEN_001", handoff |-> TRUE, hard_stop |-> FALSE]

cap_to_refusal(capability) ==
    CASE capability = "DIAGNOSIS" -> {"DIAGNOSIS_CONFIRMATION"}
      [] capability = "PRESCRIPTION" -> {"MEDICINE_REQUEST"}
      [] capability = "TREATMENT_MODIFICATION" -> {"DOSAGE_CHANGE"}
      [] capability = "EMERGENCY_REDIRECT" -> {"EMERGENCY"}
      [] OTHER -> NoneV

\* Python truth of an optional dict: None and the empty dict are false.
Truthy(entry) == entry # NoneV /\ The(entry) # EmptyEntry

\* The mutant of _get_refusal_info that never consults the refusal library.
_get_refusal_info_DefaultOnly(c, intent_class, capability) == {default_refusal}

_get_refusal_info(c, intent_class, capability) ==
    LET class_refusals == c.refusal_library[intent_class]
        refusal_key == cap_to_refusal(capability)
        by_key == IF refusal_key = NoneV THEN NoneV ELSE class_refusals[The(refusal_key)]
        refusal_data == IF ~Truthy(by_key) /\ intent_class = "CLASS_D" THEN class_refusals["EMERGENCY"] ELSE by_key
    IN  IF Truthy(refusal_data)
            THEN LET messages == Get(The(refusal_data).messages, <<default_refusal.message>>)
                 IN  IF messages = << >> THEN {Raised("IndexError")}
                     ELSE {[raised |-> NoneV,
                            message |-> m,
                            refusal_code |-> Get(The(refusal_data).refusal_code, "REF_UNKNOWN"),
                            handoff |-> Get(The(refusal_data).handoff, FALSE),
                            hard_stop |-> Get(The(refusal_data).hard_stop, FALSE)] : m \in Range(messages)}
        ELSE {default_refusal}

\* One entry per (applicable rule, matching pattern), in order.
RECURSIVE Violations(_, _, _)
Violations(c, rules, text) ==
    IF rules = << >> THEN << >>
    ELSE LET rule_def == c.safety_rules[Head(rules)]
             patterns == Get(rule_def.patterns, << >>)
             hits == SelectSeq(patterns, LAMBDA p : p \in text)
         IN  [i \in 1..Len(hits) |-> Head(rules)] \o Violations(c, Tail(rules), text)

enforce(c, text, capability, intent_class) ==
    IF intent_class \in {"CLASS_C", "CLASS_D"}
        THEN {IF info.raised # NoneV THEN info
              ELSE SafetyResult(FALSE, <<intent_class>>, info.message, info.handoff, info.hard_stop, info.refusal_code) :
              info \in _get_refusal_info(c, intent_class, capability)}
    ELSE LET applicable_rules == IF capability \in DOMAIN c.capabilities
                                    THEN Get(c.capabilities[capability].safety_rules, << >>)
                                 ELSE RuleOrder
             violations == Violations(c, applicable_rules, text)
         IN  IF violations # << >>
                THEN {SafetyResult(FALSE, violations, Get(c.safety_rules[violations[1]].replacement, "CANNOT_PROVIDE_MSG"), FALSE, FALSE, "SAFETY_RULE_VIOLATION")}
             ELSE {SafetyResult(TRUE, << >>, "", FALSE, FALSE, "")}

(***************************************************************************)
(* RulesEngine (rules_engine.py).                                          *)
(***************************************************************************)
LegalRuleOrder == <<"no_diagnosis_without_license", "no_prescription_without_license", "telemedicine_consent_required", "data_minimization", "astra_boundary_statement">>

LegalRules ==
    [r \in Range(LegalRuleOrder) |->
        CASE r = "no_diagnosis_without_license" -> [applies_to |-> {}, applies_to_class |-> {"CLASS_C", "CLASS_D"}, enforcement |-> "block"]
          [] r = "no_prescription_without_license" -> [applies_to |-> {}, applies_to_class |-> {"CLASS_C"}, enforcement |-> "block"]
          [] r = "telemedicine_consent_required" -> [applies_to |-> {"APPOINTMENT_BOOKING"}, applies_to_class |-> {}, enforcement |-> "require_consent"]
          [] r = "data_minimization" -> [applies_to |-> {"all"}, applies_to_class |-> {}, enforcement |-> "log"]
          [] r = "astra_boundary_statement" -> [applies_to |-> {}, applies_to_class |-> {"CLASS_B_PLUS"}, enforcement |-> "append_statement"]]

\* user_metadata is an option of [telemedicine: option of BOOLEAN].
_has_consent(user_metadata, rule_name) ==
    IF user_metadata = NoneV THEN FALSE
    ELSE IF rule_name = "telemedicine_consent_required" THEN Get(The(user_metadata).telemedicine, FALSE)
    ELSE TRUE

Applies(rule_name, capability, intent_class) ==
    \/ "all" \in LegalRules[rule_name].applies_to
    \/ capability \in LegalRules[rule_name].applies_to
    \/ intent_class \in LegalRules[rule_name].applies_to_class

_get_violation_message(rule_name) ==
    CASE rule_name = "no_diagnosis_without_license" -> "CANNOT_DIAGNOSE_MSG"
      [] rule_name = "no_prescription_without_license" -> "CANNOT_PRESCRIBE_MSG"
      [] OTHER -> "RULE_DESCRIPTION"

BoundaryStatement == "BOUNDARY_STATEMENT"

\* The verdict with the consent branch tested before the violations.
rules_enforce_ConsentFirst(capability, intent_class, user_metadata) ==
    LET applying == SelectSeq(LegalRuleOrder, LAMBDA r : Applies(r, capability, intent_class))
        violations == SelectSeq(applying, LAMBDA r : LegalRules[r].enforcement = "block" /\ intent_class \in {"CLASS_C", "CLASS_D"})
        required_actions == SelectSeq(applying, LAMBDA r : LegalRules[r].enforcement = "require_consent" /\ ~_has_consent(user_metadata, r))
        boundary_statement == IF \E i \in 1..Len(applying) : LegalRules[applying[i]].enforcement = "append_statement" THEN BoundaryStatement ELSE ""
    IN  IF required_actions # << >>
            THEN [allowed |-> FALSE, violations |-> << >>, message |-> "CONSENT_NEEDED_MSG", required_actions |-> required_actions, boundary_statement |-> ""]
        ELSE IF violations # << >>
            THEN [allowed |-> FALSE, violations |-> violations, message |-> _get_violation_message(violations[1]), required_actions |-> required_actions, boundary_statement |-> ""]
        ELSE [allowed |-> TRUE, violations |-> << >>, message |-> "", required_actions |-> << >>, boundary_statement |-> boundary_statement]

rules_enforce(capability, intent_class, user_metadata) ==
    LET applying == SelectSeq(LegalRuleOrder, LAMBDA r : Applies(r, capability, intent_class))
        violations == SelectSeq(applying, LAMBDA r : LegalRules[r].enforcement = "block" /\ intent_class \in {"CLASS_C", "CLASS_D"})
        required_actions == SelectSeq(applying, LAMBDA r : LegalRules[r].enforcement = "require_consent" /\ ~_has_consent(user_metadata, r))
        boundary_statement == IF \E i \in 1..Len(applying) : LegalRules[applying[i]].enforcement = "append_statement" THEN BoundaryStatement ELSE ""
    IN  IF violations # << >>
            THEN [allowed |-> FALSE, violations |-> violations, message |-> _get_violation_message(violations[1]), required_actions |-> required_actions, boundary_statement |-> ""]
        ELSE IF required_actions # << >>
            THEN [allowed |-> FALSE, violations |-> << >>, message |-> "CONSENT_NEEDED_MSG", required_actions |-> required_actions, boundary_statement |-> ""]
        ELSE [allowed |-> TRUE, violations |-> << >>, message |-> "", required_actions |-> << >>, boundary_statement |-> boundary_statement]

(***************************************************************************)
(* ConsentManager (consent_manager.py).  A consent record and a cached     *)
(* result are keyed by <<user_id, profile_id, purpose>>.  The three        *)
(* persistence methods are placeholders in the sources ("Implementation    *)
(* depends on your database"); the store behind them is modelled from the  *)
(* specification: one record per key, written by grant, marked by revoke.  *)
(***************************************************************************)
Users == {"u1"}

Profiles == {"p1"}

ASTRA_USAGE == "astra_usage"

Purposes == {ASTRA_USAGE, "document_upload", "rag_memory_storage"}

ConsentKeys == Users \X Profiles \X Purposes

ConsentCapabilities == {"GENERAL_WELLNESS_CHAT", "DOCUMENT_INTERPRETATION", "SYMPTOM_DOCUMENTATION"}

_map_capability_to_purpose(capability) ==
    CASE capability = "DOCUMENT_INTERPRETATION" -> {"document_upload"}
      [] capability = "SYMPTOM_DOCUMENTATION" -> {"rag_memory_storage"}
      [] capability = "MEDICATION_REMINDER_CHAT" -> {"rag_memory_storage"}
      [] capability = "HEALTH_TIMELINE" -> {"health_timeline_access"}
      [] capability = "APPOINTMENT_BOOKING" -> {"telemedicine_consultation"}
      [] OTHER -> NoneV

\* A record or a cached result without expires_at never expires.
_is_expired(consent_record, t) ==
    IF consent_record.expires_at = NoneV THEN FALSE ELSE t > The(consent_record.expires_at)

\* Option: the stored record; nothing when no database is connected.
_get_consent_from_db(store, connected, key) ==
    IF ~connected THEN NoneV
    ELSE IF key \in DOMAIN store THEN store[key]
    ELSE NoneV

ConsentResult(granted, record, purpose, status) ==
    [granted |-> granted,
     consent_id |-> IF record = NoneV THEN NoneV ELSE {The(record).id},
     granted_at |-> IF record = NoneV THEN NoneV ELSE {The(record).granted_at},
     expires_at |-> IF record = NoneV THEN NoneV ELSE The(record).expires_at,
     purpose |-> purpose,
     status |-> status]

\* The cache key f"{user_id}:{profile_id}:{purpose}" (lines 118, 193, 284, 336).
cache_key(user_id, profile_id, purpose) == user_id \o ":" \o profile_id \o ":" \o purpose

\* The empty cache of a ConsentManager that is asked about the given keys.
EmptyCache(keys) == [x \in {cache_key(k[1], k[2], k[3]) : k \in keys} |-> NoneV]

\* A cache with the entry of key k replaced.
CachePut(cache, k, result) == [x \in DOMAIN cache |-> IF x = k THEN {result} ELSE cache[x]]

CacheDel(cache, k) == [x \in DOMAIN cache |-> IF x = k THEN NoneV ELSE cache[x]]

CacheGet(cache, k) == IF k \in DOMAIN cache THEN cache[k] ELSE NoneV

\* [result, cache]: the verdict on the mandatory astra_usage purpose and the
\* cache after the call.
\* verify_astra_consent that takes a missing record for consent.
verify_astra_consent_SkipUnknown(cache, store, connected, t, user_id, profile_id) ==
    LET k == cache_key(user_id, profile_id, ASTRA_USAGE)
        cached == CacheGet(cache, k)
        consent_record == _get_consent_from_db(store, connected, <<user_id, profile_id, ASTRA_USAGE>>)
    IN  IF cached # NoneV /\ ~_is_expired(The(cached), t)
            THEN [result |-> The(cached), cache |-> cache]
        ELSE IF consent_record = NoneV
            THEN [result |-> ConsentResult(TRUE, NoneV, ASTRA_USAGE, "granted"), cache |-> cache]
        ELSE IF The(consent_record).revoked_at # NoneV \/ _is_expired(The(consent_record), t)
            THEN [result |-> ConsentResult(FALSE, NoneV, ASTRA_USAGE, IF The(consent_record).revoked_at # NoneV THEN "revoked" ELSE "expired"), cache |-> cache]
        ELSE LET result == ConsentResult(TRUE, consent_record, ASTRA_USAGE, "granted")
             IN  [result |-> result, cache |-> CachePut(cache, k, result)]

verify_astra_consent(cache, store, connected, t, user_id, profile_id) ==
    LET k == cache_key(user_id, profile_id, ASTRA_USAGE)
        cached == CacheGet(cache, k)
        consent_record == _get_consent_from_db(store, connected, <<user_id, profile_id, ASTRA_USAGE>>)
    IN  IF cached # NoneV /\ ~_is_expired(The(cached), t)
            THEN [result |-> The(cached), cache |-> cache]
        ELSE IF consent_record = NoneV
            THEN [result |-> ConsentResult(FALSE, NoneV, ASTRA_USAGE, "not_requested"), cache |-> cache]
        ELSE IF The(consent_record).revoked_at # NoneV \/ _is_expired(The(consent_record), t)
            THEN [result |-> ConsentResult(FALSE, NoneV, ASTRA_USAGE, IF The(consent_record).revoked_at # NoneV THEN "revoked" ELSE "expired"), cache |-> cache]
        ELSE LET result == ConsentResult(TRUE, consent_record, ASTRA_USAGE, "granted")
             IN  [result |-> result, cache |-> CachePut(cache, k, result)]

\* The evaluation with the expiry of the record tested before its revocation.
VerifyPurpose_ExpiryFirst(cache, store, connected, t, user_id, profile_id, purpose) ==
    LET k == cache_key(user_id, profile_id, purpose)
        cached == CacheGet(cache, k)
        consent_record == _get_consent_from_db(store, connected, <<user_id, profile_id, purpose>>)
    IN  IF cached # NoneV /\ ~_is_expired(The(cached), t)
            THEN [result |-> The(cached), cache |-> cache]
        ELSE IF consent_record = NoneV
            THEN [result |-> ConsentResult(FALSE, NoneV, purpose, "not_requested"), cache |-> cache]
        ELSE IF _is_expired(The(consent_record), t)
            THEN [result |-> ConsentResult(FALSE, consent_record, purpose, "expired"), cache |-> cache]
        ELSE IF The(consent_record).revoked_at # NoneV
            THEN [result |-> ConsentResult(FALSE, consent_record, purpose, "revoked"), cache |-> cache]
        ELSE LET result == ConsentResult(TRUE, consent_record, purpose, "granted")
             IN  [result |-> result, cache |-> CachePut(cache, k, result)]

\* The evaluation with a cached result trusted without a look at its expiry.
VerifyPurpose_TrustCache(cache, store, connected, t, user_id, profile_id, purpose) ==
    LET k == cache_key(user_id, profile_id, purpose)
        cached == CacheGet(cache, k)
        consent_record == _get_consent_from_db(store, connected, <<user_id, profile_id, purpose>>)
    IN  IF cached # NoneV
            THEN [result |-> The(cached), cache |-> cache]
        ELSE IF consent_record = NoneV
            THEN [result |-> ConsentResult(FALSE, NoneV, purpose, "not_requested"), cache |-> cache]
        ELSE IF The(consent_record).revoked_at # NoneV
            THEN [result |-> ConsentResult(FALSE, consent_record, purpose, "revoked"), cache |-> cache]
        ELSE IF _is_expired(The(consent_record), t)
            THEN [result |-> ConsentResult(FALSE, consent_record, purpose, "expired"), cache |-> cache]
        ELSE LET result == ConsentResult(TRUE, consent_record, purpose, "granted")
             IN  [result |-> result, cache |-> CachePut(cache, k, result)]

\* The evaluation of the record of a specific purpose (lines 117-186).
VerifyPurpose(cache, store, connected, t, user_id, profile_id, purpose) ==
    LET k == cache_key(user_id, profile_id, purpose)
        cached == CacheGet(cache, k)
        consent_record == _get_consent_from_db(store, connected, <<user_id, profile_id, purpose>>)
    IN  IF cached # NoneV /\ ~_is_expired(The(cached), t)
            THEN [result |-> The(cached), cache |-> cache]
        ELSE IF consent_record = NoneV
            THEN [result |-> ConsentResult(FALSE, NoneV, purpose, "not_requested"), cache |-> cache]
        ELSE IF The(consent_record).revoked_at # NoneV
            THEN [result |-> ConsentResult(FALSE, consent_record, purpose, "revoked"), cache |-> cache]
        ELSE IF _is_expired(The(consent_record), t)
            THEN [result |-> ConsentResult(FALSE, consent_record, purpose, "expired"), cache |-> cache]
        ELSE LET result == ConsentResult(TRUE, consent_record, purpose, "granted")
             IN  [result |-> result, cache |-> CachePut(cache, k, result)]

\* verify_consent with the astra_usage check placed after the purpose's own.
verify_consent_PurposeFirst(cache, store, connected, t, user_id, profile_id, capability, purpose) ==
    LET mapped == IF purpose = NoneV THEN _map_capability_to_purpose(capability) ELSE purpose
        own == VerifyPurpose(cache, store, connected, t, user_id, profile_id, The(mapped))
        astra == verify_astra_consent(cache, store, connected, t, user_id, profile_id)
    IN  IF mapped # NoneV /\ own.result.granted THEN own
        ELSE IF ~astra.result.granted THEN astra
        ELSE IF mapped = NoneV THEN [result |-> [astra.result EXCEPT !.granted = TRUE, !.status = "granted"], cache |-> astra.cache]
        ELSE VerifyPurpose(astra.cache, store, connected, t, user_id, profile_id, The(mapped))

\* [result, cache] of verify_consent(user_id, profile_id, capability, purpose);
\* purpose is an option.
verify_consent(cache, store, connected, t, user_id, profile_id, capability, purpose) ==
    LET astra == verify_astra_consent(cache, store, connected, t, user_id, profile_id)
        mapped == IF purpose = NoneV THEN _map_capability_to_purpose(capability) ELSE purpose
    IN  IF ~astra.result.granted THEN astra
        ELSE IF mapped = NoneV
            THEN [result |-> [astra.result EXCEPT !.granted = TRUE, !.purpose = ASTRA_USAGE, !.status = "granted"], cache |-> astra.cache]
        ELSE VerifyPurpose(astra.cache, store, connected, t, user_id, profile_id, The(mapped))

\* The record written by grant_consent.
GrantedRecord(t, duration_days) ==
    [id |-> "consent_id", granted_at |-> t, expires_at |-> {t + duration_days}, revoked_at |-> NoneV]

\* [ok, store]: the store after _save_consent_to_db and whether an id came back.
_save_consent_to_db(store, connected, key, record) ==
    IF ~connected THEN [ok |-> FALSE, store |-> store]
    ELSE [ok |-> TRUE, store |-> [k \in DOMAIN store |-> IF k = key THEN {record} ELSE store[k]]]

\* [ok, store]: the store after _revoke_consent_in_db and whether a row changed.
_revoke_consent_in_db(store, connected, key, revoked_at) ==
    IF ~connected \/ store[key] = NoneV THEN [ok |-> FALSE, store |-> store]
    ELSE [ok |-> TRUE, store |-> [k \in DOMAIN store |-> IF k = key THEN {[The(store[k]) EXCEPT !.revoked_at = {revoked_at}]} ELSE store[k]]]

(***************************************************************************)
(* AstraPipeline (pipeline.py).  One action per step of process(); a gate  *)
(* step includes the _build_*_response call that ends the run.  An         *)
(* unexpected exception may be raised by any step that is not wrapped in a *)
(* try of its own; it is caught at the end of process() (lines 391-407).   *)
(***************************************************************************)
Languages == {"en", "hi"}

Txt(segs, lang) == [segs |-> segs, lang |-> lang]

PipelineUser == "u1"

PipelineProfile == "p1"

PipelineKeys == {PipelineUser} \X {PipelineProfile} \X {ASTRA_USAGE, "rag_memory_storage", "telemedicine_consultation"}

ValidRecord == GrantedRecord(0, 1)

\* The consent records the store may hold when the pipeline is constructed.
NoRecords == [k \in PipelineKeys |-> NoneV]

AstraUsageOnly == [k \in PipelineKeys |-> IF k[3] = ASTRA_USAGE THEN {ValidRecord} ELSE NoneV]

AllGranted == [k \in PipelineKeys |-> {ValidRecord}]

\* db_connection, rate_limiter, translation_service, model_service: given or None.
Services(d, r, t, m) == [db |-> d, rate_limiter |-> r, translation_service |-> t, model_service |-> m]

\* The pipelines the model constructs, each with the records its store holds:
\* every collaborator given; the wiring of main_enhanced.py (no translation
\* service); nothing given.
Deployments ==
    { <<Services(TRUE, TRUE, TRUE, TRUE), AllGranted>>,
      <<Services(TRUE, TRUE, TRUE, TRUE), AstraUsageOnly>>,
      <<Services(TRUE, TRUE, FALSE, TRUE), AllGranted>>,
      <<Services(FALSE, FALSE, FALSE, FALSE), NoRecords>> }

UserMetadata == {NoneV, {[telemedicine |-> {TRUE}]}}

\* The arguments of process() that a step reads.  is_voice only selects the
\* window the rate limiter counts in, and the limiter's verdict is a choice.
Inputs == [user_input : Texts, input_language : {NoneV, {"hi"}}, user_metadata : UserMetadata]

NoLocals ==
    [detected_language |-> NoneV, normalized_input |-> NoneV, capability_result |-> NoneV, safety_check |-> NoneV, rules_check |-> NoneV, consent_check |-> NoneV, rag_context |-> NoneV, emotion |-> NoneV, tone |-> NoneV, response_text |-> NoneV, sanitized_response |-> NoneV, emotional_response |-> NoneV, localized_response |-> NoneV]

NoInput == [user_input |-> {}, input_language |-> NoneV, user_metadata |-> NoneV]

Step(name) == [name |-> name, error |-> NoneV]

ErrorStep(e) == [name |-> "error", error |-> {e}]

NewAuditLog(run) ==
    [correlation_id |-> run, steps |-> <<Step("user_input")>>, intent_class |-> NoneV, capability |-> NoneV, blocked_reason |-> NoneV, refusal_code |-> NoneV]

AddStep(log, name) == [log EXCEPT !.steps = Append(@, Step(name))]

\* What _save_audit_log returns for its n-th invocation in a run: a fresh id,
\* or None without a database.
_save_audit_log(connected, run, n) == IF connected THEN {<<run, n>>} ELSE NoneV

Response(text, language, capability, audit_log_id, correlation_id, error) ==
    [response |-> text, language |-> language, capability |-> capability, audit_log_id |-> audit_log_id, correlation_id |-> correlation_id, error |-> error]

\* The texts the translation service may return for a text.
Translations(text) == {text, {}}

\* _localize_to_language: the translation, or the text itself when there is
\* no service or the service raises.
_localize_to_language(text, target_lang) ==
    IF svc.translation_service THEN {Txt(text.segs, target_lang), text} ELSE {text}

UnexpectedError == "ERR_TEXT"

ApologyText == Txt(<<"APOLOGY_MSG">>, "en")

\* Lines 391-407: the handler of an exception e raised by the step that made
\* the call `call`.
ExceptionReturn_NoSave(e, call) ==
    /\ exc' = {e}
    /\ calls' = Append(calls, call)
    /\ audit_log' = [audit_log EXCEPT !.steps = Append(@, ErrorStep(e))]
    /\ saved' = saved
    /\ resp' = {Response(ApologyText, Get(loc.detected_language, "en"), "ERROR", NoneV, {audit_log.correlation_id}, {e})}
    /\ pc' = "returned"
    /\ UNCHANGED <<cfg, svc, inp, loc, runs, consent_vars, unit_vars>>

ExceptionReturn_Propagate(e, call) ==
    /\ exc' = {e}
    /\ calls' = Append(calls, call)
    /\ pc' = "propagated"
    /\ UNCHANGED <<cfg, svc, inp, loc, audit_log, saved, resp, runs, consent_vars, unit_vars>>

ExceptionReturn(e, call) ==
    /\ exc' = {e}
    /\ calls' = Append(calls, call)
    /\ audit_log' = [audit_log EXCEPT !.steps = Append(@, ErrorStep(e))]
    /\ saved' = Append(saved, audit_log')
    /\ resp' = {Response(ApologyText, Get(loc.detected_language, "en"), "ERROR", NoneV, {audit_log.correlation_id}, {e})}
    /\ pc' = "returned"
    /\ UNCHANGED <<cfg, svc, inp, loc, runs, consent_vars, unit_vars>>

\* A builder that leaves the blocked_reason of the log unset.
GateReturn_NoReason(log, text, language, capability, correlation_id) ==
    /\ audit_log' = [log EXCEPT !.blocked_reason = NoneV]
    /\ saved' = Append(saved, audit_log')
    /\ resp' = {Response(text, language, capability, _save_audit_log(svc.db, runs, Len(saved) + 1), correlation_id, NoneV)}
    /\ pc' = "returned"

\* A gate's _build_*_response: the log with its blocked_reason is saved once
\* and the terminal response is returned.
GateReturn(log, text, language, capability, correlation_id) ==
    /\ audit_log' = log
    /\ saved' = Append(saved, log)
    /\ resp' = {Response(text, language, capability, _save_audit_log(svc.db, runs, Len(saved) + 1), correlation_id, NoneV)}
    /\ pc' = "returned"

\* process() is called: lines 122-145.
Start ==
    /\ pc = "idle"
    /\ runs < MaxRuns
    /\ \E i \in Inputs : inp' = i
    /\ runs' = runs + 1
    /\ loc' = NoLocals
    /\ audit_log' = NewAuditLog(runs + 1)
    /\ saved' = << >>
    /\ resp' = NoneV
    /\ exc' = NoneV
    /\ calls' = << >>
    /\ pc' = "rate_limit"
    /\ UNCHANGED <<cfg, svc, consent_vars, unit_vars>>

\* Step 2, lines 147-157 with _check_rate_limit and _build_rate_limit_response.
RateLimitCheck_Continue ==
    /\ pc = "rate_limit"
    /\ \E allowed \in (IF svc.rate_limiter THEN BOOLEAN ELSE {TRUE}) :
        /\ calls' = IF svc.rate_limiter THEN Append(calls, "check_limit") ELSE calls
        /\ audit_log' = IF allowed THEN AddStep(audit_log, "rate_limit_check") ELSE [AddStep(audit_log, "rate_limit_check") EXCEPT !.blocked_reason = {"RATE_LIMIT_EXCEEDED"}]
        /\ pc' = "language"
        /\ UNCHANGED <<saved, resp>>
    /\ UNCHANGED <<cfg, svc, inp, loc, exc, runs, consent_vars, unit_vars>>

RateLimitCheck ==
    /\ pc = "rate_limit"
    /\ \E allowed \in (IF svc.rate_limiter THEN BOOLEAN ELSE {TRUE}) :
        /\ calls' = IF svc.rate_limiter THEN Append(calls, "check_limit") ELSE calls
        /\ IF allowed
            THEN /\ audit_log' = AddStep(audit_log, "rate_limit_check")
                 /\ pc' = "language"
                 /\ UNCHANGED <<saved, resp>>
            ELSE GateReturn([AddStep(audit_log, "rate_limit_check") EXCEPT !.blocked_reason = {"RATE_LIMIT_EXCEEDED"}], Txt(<<"RATE_LIMIT_MSG">>, "en"), "en", "RATE_LIMITED", NoneV)
    /\ UNCHANGED <<cfg, svc, inp, loc, exc, runs, consent_vars, unit_vars>>

\* A call of the translation service gives an option: its answer, or
\* nothing when it raises.  TranslationFailed stands for the exception where
\* a wrapper lets it through.
TranslationFailed == "TRANSLATION_FAILED"

Answers(values) == {{v} : v \in values} \cup {NoneV}

\* The calls a wrapper of the translation service makes: the call, and
\* logger.error when the call raised.
TranslationCall(call, outcome) == IF outcome = NoneV THEN <<call, "translation_error">> ELSE <<call>>

\* The wrapper without its except clause.
_detect_language_Propagate(outcome) == IF outcome = NoneV THEN TranslationFailed ELSE The(outcome)

\* _detect_language, lines 426-435, on what detect_language does.
_detect_language(outcome) == IF outcome = NoneV THEN "en" ELSE The(outcome)

\* _normalize_to_english and _localize_to_language, lines 437-465, on what
\* translate does: the text is kept when the call raises.
OrUntranslated(outcome, text) == IF outcome = NoneV THEN text ELSE The(outcome)

\* What the translation service may do in a step: answer with one of the
\* values or, where raising is told apart, raise.  Where it is not, a raise
\* is one with the answer its wrapper puts in its place.
Outcomes(values, raising) == IF raising THEN Answers(values) ELSE {{v} : v \in values}

\* Step 3, lines 159-169 with _detect_language.  An outcome that leaves the
\* wrapper as an exception reaches the handler of process.
LanguageDetectStep(raising) ==
    /\ pc = "language"
    /\ \E outcome \in (IF inp.input_language # NoneV THEN {inp.input_language} ELSE IF svc.translation_service THEN Outcomes(Languages, raising) ELSE {{"en"}}) :
        LET called == inp.input_language = NoneV /\ svc.translation_service
            code == IF called THEN _detect_language(outcome) ELSE The(outcome)
        IN  IF code = TranslationFailed
                THEN ExceptionReturn(UnexpectedError, "detect_language")
            ELSE /\ loc' = [loc EXCEPT !.detected_language = {code}]
                 /\ calls' = IF called THEN calls \o TranslationCall("detect_language", outcome) ELSE calls
                 /\ audit_log' = AddStep(audit_log, "language_detection")
                 /\ pc' = "normalize"
                 /\ UNCHANGED <<cfg, svc, inp, saved, resp, exc, runs, consent_vars, unit_vars>>

LanguageDetect == LanguageDetectStep(FALSE)

\* Step 4, lines 171-181 with _normalize_to_english.
NormalizeStep(raising) ==
    /\ pc = "normalize"
    /\ LET called == The(loc.detected_language) # "en" /\ svc.translation_service
       IN  \E outcome \in (IF called THEN Outcomes(Translations(inp.user_input), raising) ELSE {{inp.user_input}}) :
            /\ loc' = [loc EXCEPT !.normalized_input = {OrUntranslated(outcome, inp.user_input)}]
            /\ calls' = IF called THEN calls \o TranslationCall("translate_to_en", outcome) ELSE calls
    /\ audit_log' = AddStep(audit_log, "indictrans2_normalization")
    /\ pc' = "identify"
    /\ UNCHANGED <<cfg, svc, inp, saved, resp, exc, runs, consent_vars, unit_vars>>

Normalize == NormalizeStep(FALSE)

\* Step 5, lines 183-200.
CapabilityIdentify ==
    /\ pc = "identify"
    /\ \/ LET capability_result == identify_capability(cfg, The(loc.normalized_input))
          IN  /\ loc' = [loc EXCEPT !.capability_result = {capability_result}]
              /\ audit_log' = [AddStep(audit_log, "capability_identification") EXCEPT !.intent_class = {capability_result.intent_class}, !.capability = {capability_result.capability}]
              /\ calls' = Append(calls, "identify_capability")
              /\ pc' = "safety"
              /\ UNCHANGED <<cfg, svc, inp, saved, resp, exc, runs, consent_vars, unit_vars>>
       \/ ExceptionReturn(UnexpectedError, "identify_capability")

\* The translation calls a _build_*_response makes for n texts.
RefusalCalls(language, n) ==
    IF language # "en" /\ svc.translation_service THEN [i \in 1..n |-> "translate_from_en"] ELSE << >>

\* The refusal message with the hand-off call to action, each localized
\* (lines 647-658).
RefusalTexts(safety_check, language) ==
    LET base == Txt(<<safety_check.message>>, "en")
        cta == Txt(<<The(cfg.doctor_handoff_cta)>>, "en")
        messages == IF language # "en" THEN _localize_to_language(base, language) ELSE {base}
        handoffs == IF language # "en" THEN _localize_to_language(cta, language) ELSE {cta}
    IN  IF safety_check.handoff
            THEN {Txt(m.segs \o h.segs, m.lang) : m \in messages, h \in handoffs}
        ELSE messages

\* Step 6, lines 202-222 with _build_safety_blocked_response.
SafetyEnforce_NoBlock ==
    /\ pc = "safety"
    /\ \E r \in enforce(cfg, The(loc.normalized_input), The(loc.capability_result).capability, The(loc.capability_result).intent_class) :
        /\ r.raised = NoneV
        /\ calls' = Append(calls, "safety_enforce")
        /\ loc' = [loc EXCEPT !.safety_check = {r}]
        /\ audit_log' = AddStep(audit_log, "safety_enforcement")
        /\ pc' = "rules"
        /\ UNCHANGED <<cfg, svc, inp, saved, resp, exc, runs, consent_vars, unit_vars>>

SafetyEnforce ==
    /\ pc = "safety"
    /\ \/ \E r \in enforce(cfg, The(loc.normalized_input), The(loc.capability_result).capability, The(loc.capability_result).intent_class) :
            IF r.raised # NoneV THEN ExceptionReturn(The(r.raised), "safety_enforce")
            ELSE /\ calls' = Append(calls, "safety_enforce") \o (IF r.safe THEN << >> ELSE RefusalCalls(The(loc.detected_language), IF r.handoff THEN 2 ELSE 1))
                 /\ loc' = [loc EXCEPT !.safety_check = {r}]
                 /\ IF r.safe
                        THEN /\ audit_log' = AddStep(audit_log, "safety_enforcement")
                             /\ pc' = "rules"
                             /\ UNCHANGED <<saved, resp>>
                    ELSE \E text \in RefusalTexts(r, The(loc.detected_language)) :
                            GateReturn([AddStep(audit_log, "safety_enforcement") EXCEPT !.blocked_reason = {"SAFETY_VIOLATION"}, !.refusal_code = {r.refusal_code}], text, The(loc.detected_language), "SAFETY_BLOCKED", NoneV)
                 /\ UNCHANGED <<cfg, svc, inp, exc, runs, consent_vars, unit_vars>>
       \/ ExceptionReturn(UnexpectedError, "safety_enforce")

\* Step 7, lines 224-243 with _build_rules_blocked_response.
RulesEnforce ==
    /\ pc = "rules"
    /\ \/ LET rules_check == rules_enforce(The(loc.capability_result).capability, The(loc.capability_result).intent_class, inp.user_metadata)
              language == The(loc.detected_language)
              message == Txt(<<rules_check.message>>, "en")
          IN  /\ calls' = Append(calls, "rules_enforce") \o (IF rules_check.allowed THEN << >> ELSE RefusalCalls(language, 1))
              /\ loc' = [loc EXCEPT !.rules_check = {rules_check}]
              /\ IF rules_check.allowed
                    THEN /\ audit_log' = AddStep(audit_log, "rules_enforcement")
                         /\ pc' = "consent"
                         /\ UNCHANGED <<saved, resp>>
                 ELSE \E text \in (IF language # "en" THEN _localize_to_language(message, language) ELSE {message}) :
                        GateReturn([AddStep(audit_log, "rules_enforcement") EXCEPT !.blocked_reason = {"LEGAL_RULE_VIOLATION"}], text, language, "RULES_BLOCKED", NoneV)
              /\ UNCHANGED <<cfg, svc, inp, exc, runs, consent_vars, unit_vars>>
       \/ ExceptionReturn(UnexpectedError, "rules_enforce")

\* Step 8, lines 245-263 with _build_consent_required_response.  With
\* failing, a lookup of the connected store may raise: _get_consent_from_db
\* logs the error and returns None, as it does without a store.
ConsentVerifyStep(failing) ==
    /\ pc = "consent"
    /\ \/ \E connected \in (IF failing THEN {svc.db, FALSE} ELSE {svc.db}) :
          LET v == verify_consent(consent_cache, db, connected, now, PipelineUser, PipelineProfile, The(loc.capability_result).capability, NoneV)
              language == The(loc.detected_language)
              message == Txt(<<"CONSENT_MSG">>, "en")
          IN  /\ calls' = Append(calls, "verify_consent") \o (IF svc.db /\ ~connected THEN <<"consent_lookup_error">> ELSE << >>) \o (IF v.result.granted THEN << >> ELSE RefusalCalls(language, 1))
              /\ consent_cache' = v.cache
              /\ loc' = [loc EXCEPT !.consent_check = {v.result}]
              /\ IF v.result.granted
                    THEN /\ audit_log' = AddStep(audit_log, "consent_verification")
                         /\ pc' = "rag"
                         /\ UNCHANGED <<saved, resp>>
                 ELSE \E text \in (IF language # "en" THEN _localize_to_language(message, language) ELSE {message}) :
                        GateReturn([AddStep(audit_log, "consent_verification") EXCEPT !.blocked_reason = {"CONSENT_REQUIRED"}], text, language, "CONSENT_REQUIRED", NoneV)
              /\ UNCHANGED <<cfg, svc, inp, exc, runs, db, now, unit_vars>>
       \/ ExceptionReturn(UnexpectedError, "verify_consent")

ConsentVerify == ConsentVerifyStep(FALSE)

\* What rag_memory.retrieve may return: the concatenated context, or None.
RetrieveResults == {NoneV, {"RAG_CONTEXT"}}

\* Step 9, lines 265-285.
RAGRetrieve ==
    /\ pc = "rag"
    /\ IF The(loc.capability_result).definition.rag_context # NoneV
        THEN \/ \E context \in RetrieveResults :
                    /\ loc' = [loc EXCEPT !.rag_context = context]
                    /\ calls' = Append(calls, "retrieve")
                    /\ audit_log' = AddStep(audit_log, "rag_context_retrieval")
                    /\ pc' = "emotion"
                    /\ UNCHANGED <<cfg, svc, inp, saved, resp, exc, runs, consent_vars, unit_vars>>
             \/ ExceptionReturn(UnexpectedError, "retrieve")
       ELSE /\ audit_log' = AddStep(audit_log, "rag_context_retrieval")
            /\ pc' = "emotion"
            /\ UNCHANGED <<cfg, svc, inp, loc, saved, resp, exc, calls, runs, consent_vars, unit_vars>>

\* EmotionDetector.detect: the emotion with the highest score, neutral when
\* no pattern matches.
detect(text) == IF "explain dosha" \in text THEN "curious" ELSE "neutral"

\* Step 10, lines 287-293.
EmotionDetect ==
    /\ pc = "emotion"
    /\ \/ /\ loc' = [loc EXCEPT !.emotion = {detect(The(loc.normalized_input))}]
          /\ calls' = Append(calls, "detect")
          /\ audit_log' = AddStep(audit_log, "emotion_detection")
          /\ pc' = "tone"
          /\ UNCHANGED <<cfg, svc, inp, saved, resp, exc, runs, consent_vars, unit_vars>>
       \/ ExceptionReturn(UnexpectedError, "detect")

emotion_tone_map(emotion) ==
    CASE emotion \in {"happy", "grateful"} -> "encouraging"
      [] emotion \in {"anxious", "concerned"} -> "calm"
      [] emotion = "frustrated" -> "empathetic"
      [] emotion \in {"curious", "confused"} -> "educational"
      [] OTHER -> "neutral"

map_tone(emotion, capability) ==
    IF capability = "EMERGENCY_REDIRECT" THEN "urgent" ELSE emotion_tone_map(emotion)

\* Step 11, lines 295-301.
ToneMap ==
    /\ pc = "tone"
    /\ \/ /\ loc' = [loc EXCEPT !.tone = {map_tone(The(loc.emotion), The(loc.capability_result).capability)}]
          /\ calls' = Append(calls, "map_tone")
          /\ audit_log' = AddStep(audit_log, "tone_mapping")
          /\ pc' = "route"
          /\ UNCHANGED <<cfg, svc, inp, saved, resp, exc, runs, consent_vars, unit_vars>>
       \/ ExceptionReturn(UnexpectedError, "map_tone")

\* The texts model_service.generate may return; one is the boundary
\* statement itself.
Generated == {"AI_SAFE_TEXT", "AI_DIAGNOSIS_TEXT", "AI_TREATMENT_TEXT", "AI_EMERGENCY_TEXT", BoundaryStatement}

\* The routing with the AI test placed before the forbidden test.
Route_AIFirst(capability_result) ==
    LET definition == capability_result.definition
    IN  IF Get(definition.requires_ai, FALSE) THEN "ai"
        ELSE IF capability_result.forbidden THEN "forbidden"
        ELSE IF definition.response_template # NoneV THEN "template"
        ELSE IF definition.automation # NoneV THEN "automation"
        ELSE "default"

\* The routing with the AI test placed before the template test.
Route_AIBeforeTemplate(capability_result) ==
    LET definition == capability_result.definition
    IN  IF capability_result.forbidden THEN "forbidden"
        ELSE IF Get(definition.requires_ai, FALSE) THEN "ai"
        ELSE IF definition.response_template # NoneV THEN "template"
        ELSE IF definition.automation # NoneV THEN "automation"
        ELSE "default"

\* _route_capability, lines 467-503: which handler answers.
Route(capability_result) ==
    LET definition == capability_result.definition
    IN  IF capability_result.forbidden THEN "forbidden"
        ELSE IF definition.response_template # NoneV THEN "template"
        ELSE IF definition.automation # NoneV THEN "automation"
        ELSE IF Get(definition.requires_ai, FALSE) THEN "ai"
        ELSE "default"

\* Step 12 (and 13), lines 303-316 with _route_capability and
\* _generate_ai_response; a failure of generate is caught there.
CapabilityRoute ==
    /\ pc = "route"
    /\ \/ LET handler == Route(The(loc.capability_result))
              generates == handler = "ai" /\ svc.model_service
              texts == CASE handler = "forbidden" -> {"FORBIDDEN_MSG"}
                         [] handler = "template" -> The(loc.capability_result).definition.response_template
                         [] handler = "automation" -> {"AUTOMATION_MSG"}
                         [] handler = "ai" -> IF svc.model_service THEN Generated \cup {"AI_FAILED_MSG"} ELSE {"AI_UNAVAILABLE_MSG"}
                         [] OTHER -> {"DEFAULT_MSG"}
          IN  /\ \E text \in texts : loc' = [loc EXCEPT !.response_text = {Txt(<<text>>, "en")}]
              /\ calls' = IF generates THEN calls \o <<"route", "generate">> ELSE Append(calls, "route")
              /\ audit_log' = AddStep(audit_log, "capability_routing")
              /\ pc' = "sanitize"
              /\ UNCHANGED <<cfg, svc, inp, saved, resp, exc, runs, consent_vars, unit_vars>>
       \/ ExceptionReturn(UnexpectedError, "route")

\* ResponseSanitizer (response_sanitizer.py): the segments its patterns match.
\* The three disclaimers read "This is not ..." and "If this is an
\* emergency ...", which the first diagnosis pattern ("this is" and a word,
\* line 39) matches; the emergency disclaimer holds the keyword "emergency"
\* (line 170) before and after the replacement.
UnsafeSegments == {"AI_DIAGNOSIS_TEXT", "DISCLAIMER_MEDICAL_ADVICE", "DISCLAIMER_DIAGNOSIS", "DISCLAIMER_EMERGENCY"}

DiagnosticSegments == {"AI_DIAGNOSIS_TEXT", "AI_SYMPTOMS_TEXT"}

EmergencySegments == {"AI_EMERGENCY_TEXT", "DISCLAIMER_EMERGENCY", "REPLACED_DISCLAIMER_EMERGENCY"}

\* pattern.sub(replacement, sanitized) on one segment: the matched span of a
\* disclaimer is replaced and what is left is no longer the disclaimer.
Replaced(seg) ==
    CASE seg = "DISCLAIMER_MEDICAL_ADVICE" -> "REPLACED_DISCLAIMER_MEDICAL_ADVICE"
      [] seg = "DISCLAIMER_DIAGNOSIS" -> "REPLACED_DISCLAIMER_DIAGNOSIS"
      [] seg = "DISCLAIMER_EMERGENCY" -> "REPLACED_DISCLAIMER_EMERGENCY"
      [] OTHER -> "UNSAFE_REPLACEMENT"

Replace(segs) == [i \in 1..Len(segs) |-> IF segs[i] \in UnsafeSegments THEN Replaced(segs[i]) ELSE segs[i]]

\* The append without the test for presence.
AppendIfWanted(segs, seg, wanted) == IF wanted THEN Append(segs, seg) ELSE segs

AppendIfAbsent(segs, seg, wanted) == IF wanted /\ seg \notin Range(segs) THEN Append(segs, seg) ELSE segs

_contains_diagnostic_language(segs) == Range(segs) \cap DiagnosticSegments # {}

_contains_emergency_keywords(segs) == Range(segs) \cap EmergencySegments # {}

\* sanitize(response, safety_rules), lines 86-151, on the segments of the text.
sanitize(c, response, safety_rules) ==
    IF Range(response) \cap c.post_llm_forbidden # {} THEN <<"POST_LLM_REFUSAL">>
    ELSE LET replaced == Replace(response)
             advised == AppendIfAbsent(replaced, "DISCLAIMER_MEDICAL_ADVICE", "must_recommend_doctor" \in Range(safety_rules))
             diagnosed == AppendIfAbsent(advised, "DISCLAIMER_DIAGNOSIS", "no_diagnosis" \in Range(safety_rules) /\ _contains_diagnostic_language(advised))
         IN  AppendIfAbsent(diagnosed, "DISCLAIMER_EMERGENCY", _contains_emergency_keywords(response))

\* Step 14, lines 321-336.
ResponseSanitize ==
    /\ pc = "sanitize"
    /\ \/ LET sanitized == sanitize(cfg, The(loc.response_text).segs, Get(The(loc.capability_result).definition.safety_rules, << >>))
              boundary == The(loc.rules_check).boundary_statement
              sanitized_response == AppendIfAbsent(sanitized, boundary, boundary # "")
          IN  /\ loc' = [loc EXCEPT !.sanitized_response = {Txt(sanitized_response, "en")}]
              /\ calls' = Append(calls, "sanitize")
              /\ audit_log' = AddStep(audit_log, "response_sanitization")
              /\ pc' = "apply_tone"
              /\ UNCHANGED <<cfg, svc, inp, saved, resp, exc, runs, consent_vars, unit_vars>>
       \/ ExceptionReturn(UnexpectedError, "sanitize")

\* The prefixes random.choice picks from, and the emoji, of a tone's template.
TonePrefixes(tone) ==
    CASE tone = "neutral" -> {"", "PREFIX_NEUTRAL"}
      [] tone = "educational" -> {"PREFIX_EDUCATIONAL_1", "PREFIX_EDUCATIONAL_2"}
      [] tone = "urgent" -> {"PREFIX_URGENT"}
      [] OTHER -> {"PREFIX_OTHER"}

ToneEmoji(tone) == IF tone = "neutral" THEN "" ELSE "EMOJI"

\* apply_tone(response, tone), lines 114-147: the possible results.
apply_tone(response, tone) ==
    { LET prefixed == IF prefix # "" THEN <<prefix>> \o response ELSE response
      IN  IF ToneEmoji(tone) # "" /\ response[1] # ToneEmoji(tone) THEN <<ToneEmoji(tone)>> \o prefixed ELSE prefixed :
      prefix \in TonePrefixes(tone) }

\* Step 15, lines 338-344.
ToneApply ==
    /\ pc = "apply_tone"
    /\ \/ /\ \E segs \in apply_tone(The(loc.sanitized_response).segs, The(loc.tone)) :
                loc' = [loc EXCEPT !.emotional_response = {Txt(segs, "en")}]
          /\ calls' = Append(calls, "apply_tone")
          /\ audit_log' = AddStep(audit_log, "emotional_wrapping")
          /\ pc' = "localize"
          /\ UNCHANGED <<cfg, svc, inp, saved, resp, exc, runs, consent_vars, unit_vars>>
       \/ ExceptionReturn(UnexpectedError, "apply_tone")

\* Step 16, lines 346-358.
LocalizeStep(raising) ==
    /\ pc = "localize"
    /\ LET called == The(loc.detected_language) # "en" /\ svc.translation_service
           translated == Txt(The(loc.emotional_response).segs, The(loc.detected_language))
       IN  \E outcome \in (IF called THEN (IF raising THEN Answers({translated}) ELSE Outcomes(_localize_to_language(The(loc.emotional_response), The(loc.detected_language)), FALSE))
                            ELSE {loc.emotional_response}) :
            /\ loc' = [loc EXCEPT !.localized_response = {OrUntranslated(outcome, The(loc.emotional_response))}]
            /\ calls' = IF called THEN calls \o TranslationCall("translate_from_en", outcome) ELSE calls
    /\ audit_log' = AddStep(audit_log, "indictrans2_localization")
    /\ pc' = "audit"
    /\ UNCHANGED <<cfg, svc, inp, saved, resp, exc, runs, consent_vars, unit_vars>>

Localize == LocalizeStep(FALSE)

\* Steps 17 and 18, lines 360-389: the log is saved, then the step that
\* records the save is appended and the result is returned.
AuditPersist ==
    /\ pc = "audit"
    /\ saved' = Append(saved, audit_log)
    /\ audit_log' = AddStep(audit_log, "audit_logging")
    /\ resp' = {Response(The(loc.localized_response), The(loc.detected_language), The(loc.capability_result).capability, _save_audit_log(svc.db, runs, Len(saved) + 1), {audit_log.correlation_id}, NoneV)}
    /\ pc' = "returned"
    /\ UNCHANGED <<cfg, svc, inp, loc, exc, calls, runs, consent_vars, unit_vars>>

\* The caller has the result; the frame of the run is gone.
Return ==
    /\ pc = "returned"
    /\ pc' = "idle"
    /\ inp' = NoInput
    /\ loc' = NoLocals
    /\ audit_log' = NewAuditLog(0)
    /\ saved' = << >>
    /\ resp' = NoneV
    /\ exc' = NoneV
    /\ calls' = << >>
    /\ UNCHANGED <<cfg, svc, runs, consent_vars, unit_vars>>

\* No consent history, no memory and no call in flight.
NoAux ==
    /\ trail = << >>
    /\ mem = << >>
    /\ tasks = << >>

Init ==
    /\ NoAux
    /\ cfg \in PipelineConfigs
    /\ \E d \in Deployments :
        /\ svc = d[1]
        /\ db = d[2]
    /\ consent_cache = EmptyCache(PipelineKeys)
    /\ now = 0
    /\ pc = "idle"
    /\ inp = NoInput
    /\ loc = NoLocals
    /\ audit_log = NewAuditLog(0)
    /\ saved = << >>
    /\ resp = NoneV
    /\ exc = NoneV
    /\ calls = << >>
    /\ runs = 0
    /\ ops = 0
    /\ arg = NoneV
    /\ res = NoneV

Next ==
    \/ Start
    \/ RateLimitCheck
    \/ LanguageDetect
    \/ Normalize
    \/ CapabilityIdentify
    \/ SafetyEnforce
    \/ RulesEnforce
    \/ ConsentVerify
    \/ RAGRetrieve
    \/ EmotionDetect
    \/ ToneMap
    \/ CapabilityRoute
    \/ ResponseSanitize
    \/ ToneApply
    \/ Localize
    \/ AuditPersist
    \/ Return

Spec == Init /\ [][Next]_vars

(***************************************************************************)
(* Properties of process().                                                *)
(***************************************************************************)
\* The position of a collaborator call in the order of the steps; a call of
\* the translation service has none.
CallRank(call) ==
    CASE call = "check_limit" -> 1
      [] call = "identify_capability" -> 2
      [] call = "safety_enforce" -> 3
      [] call = "rules_enforce" -> 4
      [] call = "verify_consent" -> 5
      [] call = "retrieve" -> 6
      [] call = "detect" -> 7
      [] call = "map_tone" -> 8
      [] call = "route" -> 9
      [] call = "generate" -> 10
      [] call = "sanitize" -> 11
      [] call = "apply_tone" -> 12
      [] OTHER -> 0

GateCalls == <<"check_limit", "identify_capability", "safety_enforce", "rules_enforce", "verify_consent">>

\* The gate that sets a blocked_reason and the capability of its response.
GateOf(reason) ==
    CASE reason = "RATE_LIMIT_EXCEEDED" -> [rank |-> 1, capability |-> "RATE_LIMITED", step |-> "rate_limit_check"]
      [] reason = "SAFETY_VIOLATION" -> [rank |-> 3, capability |-> "SAFETY_BLOCKED", step |-> "safety_enforcement"]
      [] reason = "LEGAL_RULE_VIOLATION" -> [rank |-> 4, capability |-> "RULES_BLOCKED", step |-> "rules_enforcement"]
      [] reason = "CONSENT_REQUIRED" -> [rank |-> 5, capability |-> "CONSENT_REQUIRED", step |-> "consent_verification"]

Last(s) == s[Len(s)]

Called(call) == call \in Range(calls)

\* C1: the calls of a run are made in the order of the steps, a step is
\* reached only after every gate before it was consulted, and once a gate
\* has failed the run has returned that gate's response with no call of a
\* later step made: after a rate-limit denial identify_capability was not
\* called.
C1_GatesInOrderAndShortCircuit ==
    LET ranked == SelectSeq([i \in 1..Len(calls) |-> CallRank(calls[i])], LAMBDA r : r > 0)
        reached == IF ranked = << >> THEN 0 ELSE Last(ranked)
    IN  /\ \A i \in 1..(Len(ranked) - 1) : ranked[i] < ranked[i + 1]
        /\ \A g \in 1..Len(GateCalls) :
            g < reached => (g \in Range(ranked) \/ (g = 1 /\ ~svc.rate_limiter))
        /\ audit_log.blocked_reason # NoneV =>
            LET gate == GateOf(The(audit_log.blocked_reason))
            IN  /\ pc = "returned"
                /\ exc = NoneV
                /\ resp # NoneV
                /\ The(resp).capability = gate.capability
                /\ Last(audit_log.steps).name = gate.step
                /\ reached = gate.rank

\* A rate-limited run whose text holds an emergency keyword and a forbidden
\* trigger.
C1_Witness ==
    /\ pc = "returned"
    /\ audit_log.blocked_reason = {"RATE_LIMIT_EXCEEDED"}
    /\ inp.user_input = {"chest pain", "diagnose me"}
    /\ calls = <<"check_limit">>

\* C2: a run that has returned has invoked _save_audit_log exactly once, and
\* a run that has not returned has not invoked it.
C2_AuditSavedExactlyOnce ==
    /\ pc = "returned" => Len(saved) = 1
    /\ pc # "returned" => Len(saved) = 0

\* A run that raised in routing, after every gate passed.
C2_Witness ==
    /\ pc = "returned"
    /\ exc # NoneV
    /\ Last(calls) = "route"
    /\ Len(saved) = 1

\* C3: an exception raised by a step is caught: the run returns the apology
\* with capability ERROR, the last step of the audit log is the error step,
\* and the log with that step is what was saved.
C3_ExceptionNeverPropagates ==
    /\ pc # "propagated"
    /\ exc # NoneV =>
        /\ pc = "returned"
        /\ resp # NoneV
        /\ The(resp).capability = "ERROR"
        /\ The(resp).response = ApologyText
        /\ Last(audit_log.steps) = ErrorStep(The(exc))
        /\ saved = <<audit_log>>

\* A run in which capability identification raised.
C3_Witness ==
    /\ pc = "returned"
    /\ exc = {UnexpectedError}
    /\ Last(calls) = "identify_capability"
    /\ The(resp).capability = "ERROR"

\* C4: when an exception was caught, no field of the returned response
\* carries the message of the exception.
C4_NoRawExceptionMessage ==
    (pc = "returned" /\ exc # NoneV) =>
        /\ The(exc) \notin Range(The(resp).response.segs)
        /\ The(exc) \notin The(resp).error

\* C5: when generate has been called, enforce returned safe, the rules
\* engine allowed and verify_consent granted, each before the call.
C5_GenerateOnlyAfterGatesPassed ==
    \A i \in 1..Len(calls) : calls[i] = "generate" =>
        /\ \A g \in 3..5 : \E j \in 1..(i - 1) : calls[j] = GateCalls[g]
        /\ loc.safety_check # NoneV /\ The(loc.safety_check).safe
        /\ loc.rules_check # NoneV /\ The(loc.rules_check).allowed
        /\ loc.consent_check # NoneV /\ The(loc.consent_check).granted

\* A run that called generate and returned its text.
C5_Witness ==
    /\ pc = "returned"
    /\ Called("generate")
    /\ The(loc.response_text).segs[1] \in Generated

\* Some forbidden capability of the configuration has a trigger in the text.
ForbiddenTriggered(c, text) ==
    \E n \in CapNames : Get(c.capabilities[n].forbidden, FALSE) /\ c.capabilities[n].triggers # NoneV /\ Matches(c, n, text)

\* C6: a text with a trigger of a forbidden capability and no emergency
\* keyword is classified forbidden, and the run never calls generate.
C6_ForbiddenNeverGenerates ==
    (loc.normalized_input # NoneV /\ ForbiddenTriggered(cfg, The(loc.normalized_input)) /\ ~_is_emergency(The(loc.normalized_input))) =>
        /\ loc.capability_result # NoneV => The(loc.capability_result).forbidden
        /\ ~Called("generate")

\* A forbidden capability configured as CLASS_A with requires_ai, answered by
\* the forbidden handler after every gate passed.
C6_Witness ==
    /\ pc = "returned"
    /\ loc.capability_result # NoneV
    /\ The(loc.capability_result).forbidden
    /\ The(loc.capability_result).intent_class = "CLASS_A"
    /\ The(loc.capability_result).definition.requires_ai = {TRUE}
    /\ loc.response_text = {Txt(<<"FORBIDDEN_MSG">>, "en")}

(***************************************************************************)
(* The specifications of single components.  The variables of the pipeline *)
(* run stay as constructed.                                                *)
(***************************************************************************)
NoRun ==
    /\ pc = "idle"
    /\ inp = NoInput
    /\ loc = NoLocals
    /\ audit_log = NewAuditLog(0)
    /\ saved = << >>
    /\ resp = NoneV
    /\ exc = NoneV
    /\ calls = << >>
    /\ runs = 0

run_vars == <<pc, inp, loc, audit_log, saved, resp, exc, calls, runs>>

\* CapabilityAgent.identify_capability on any text, under any configuration.
InitAgent ==
    /\ NoRun
    /\ NoAux
    /\ cfg \in PipelineConfigs
    /\ svc = Services(FALSE, FALSE, FALSE, FALSE)
    /\ db = NoRecords
    /\ consent_cache = EmptyCache(PipelineKeys)
    /\ now = 0
    /\ ops = 0
    /\ arg \in [user_input : Texts]
    /\ res = NoneV

Identify ==
    /\ res = NoneV
    /\ res' = {identify_capability(cfg, arg.user_input)}
    /\ UNCHANGED <<cfg, svc, run_vars, consent_vars, aux_vars, ops, arg>>

NextAgent == Identify

SpecAgent == InitAgent /\ [][NextAgent]_vars

\* C7: for a text with an emergency keyword identify_capability returns
\* EMERGENCY_REDIRECT, CLASS_D, confidence 1.0 (10 tenths), whatever other
\* triggers the text holds.
C7_EmergencyFirst ==
    (res # NoneV /\ _is_emergency(arg.user_input)) =>
        /\ The(res).capability = "EMERGENCY_REDIRECT"
        /\ The(res).intent_class = "CLASS_D"
        /\ The(res).confidence = 10

\* An emergency keyword next to the trigger of a forbidden capability.
C7_Witness ==
    /\ res # NoneV
    /\ arg.user_input = {"chest pain", "prescribe"}
    /\ The(res).capability = "EMERGENCY_REDIRECT"

\* SafetyEnforcer.enforce on any text, capability (known or not) and intent
\* class, under any refusal library.
SafetyCapabilities == {"DIAGNOSIS", "PRESCRIPTION", "EMERGENCY_REDIRECT", "AYURVEDA_EDUCATION", "UNKNOWN_CAPABILITY"}

InitSafety ==
    /\ NoRun
    /\ NoAux
    /\ cfg \in SafetyConfigs
    /\ svc = Services(FALSE, FALSE, FALSE, FALSE)
    /\ db = NoRecords
    /\ consent_cache = EmptyCache(PipelineKeys)
    /\ now = 0
    /\ ops = 0
    /\ arg \in [text : Texts, capability : SafetyCapabilities, intent_class : IntentClasses]
    /\ res = NoneV

Enforce ==
    /\ res = NoneV
    /\ \E r \in enforce(cfg, arg.text, arg.capability, arg.intent_class) : res' = {r}
    /\ UNCHANGED <<cfg, svc, run_vars, consent_vars, aux_vars, ops, arg>>

NextSafety == Enforce

SpecSafety == InitSafety /\ [][NextSafety]_vars

\* C8: for CLASS_C and CLASS_D enforce returns a refusal (safe = false, a
\* message, a refusal code) that names no rule violation, for every text,
\* capability and refusal library.
C8_MandatoryRefusal ==
    (res # NoneV /\ arg.intent_class \in {"CLASS_C", "CLASS_D"}) =>
        /\ The(res).raised = NoneV
        /\ ~The(res).safe
        /\ The(res).message # ""
        /\ The(res).refusal_code # ""
        /\ The(res).violations = <<arg.intent_class>>

\* The history kept per consent key: "none" before any grant, "granted"
\* after a grant, "cached" once a verification has cached a granted result
\* since that grant, "revoked" after a revocation, "revoked_cached" after a
\* revocation that found such a cached result.
Revoked == {"revoked", "revoked_cached"}

AfterGrant(t, key) == [t EXCEPT ![key] = "granted"]

AfterRevoke(t, key) == [t EXCEPT ![key] = IF t[key] \in {"cached", "revoked_cached"} THEN "revoked_cached" ELSE "revoked"]

AfterVerify(t, before, after) ==
    [k \in DOMAIN t |-> IF after[cache_key(k[1], k[2], k[3])] # before[cache_key(k[1], k[2], k[3])] THEN "cached" ELSE t[k]]

\* One ConsentManager over its store: grants, revocations and verifications
\* as whole calls, and the passing of days.
InitConsent ==
    /\ NoRun
    /\ cfg = Config(NoneV, NoneV, WellFormedLibrary)
    /\ svc \in {Services(TRUE, FALSE, FALSE, FALSE), Services(FALSE, FALSE, FALSE, FALSE)}
    /\ db = [k \in ConsentKeys |-> NoneV]
    /\ consent_cache = EmptyCache(ConsentKeys)
    /\ now = 0
    /\ ops = 0
    /\ arg = NoneV
    /\ res = NoneV
    /\ trail = [k \in ConsentKeys |-> "none"]
    /\ mem = << >>
    /\ tasks = << >>

\* grant_consent(user_id, profile_id, purpose, duration_days), lines 237-306,
\* on one of the given keys.
GrantOn(keys) ==
    /\ ops < MaxOps
    /\ \E key \in keys, duration_days \in 0..MaxDuration :
        LET written == _save_consent_to_db(db, svc.db, key, GrantedRecord(now, duration_days))
        IN  /\ db' = written.store
            /\ consent_cache' = IF written.ok THEN CacheDel(consent_cache, cache_key(key[1], key[2], key[3])) ELSE consent_cache
            /\ trail' = IF written.ok THEN AfterGrant(trail, key) ELSE trail
    /\ ops' = ops + 1
    /\ arg' = NoneV
    /\ res' = NoneV
    /\ UNCHANGED <<cfg, svc, run_vars, mem, tasks, now>>

Grant == GrantOn(ConsentKeys)

\* revoke_consent that leaves the cache as it is.
Revoke_KeepCache ==
    /\ ops < MaxOps
    /\ \E key \in ConsentKeys :
        LET revoked == _revoke_consent_in_db(db, svc.db, key, now)
        IN  /\ db' = revoked.store
            /\ consent_cache' = consent_cache
            /\ trail' = IF revoked.ok THEN AfterRevoke(trail, key) ELSE trail
    /\ ops' = ops + 1
    /\ arg' = NoneV
    /\ res' = NoneV
    /\ UNCHANGED <<cfg, svc, run_vars, mem, tasks, now>>

\* revoke_consent(user_id, profile_id, purpose), lines 308-354, on one of
\* the given keys.
RevokeOn(keys) ==
    /\ ops < MaxOps
    /\ \E key \in keys :
        LET revoked == _revoke_consent_in_db(db, svc.db, key, now)
        IN  /\ db' = revoked.store
            /\ consent_cache' = IF revoked.ok THEN CacheDel(consent_cache, cache_key(key[1], key[2], key[3])) ELSE consent_cache
            /\ trail' = IF revoked.ok THEN AfterRevoke(trail, key) ELSE trail
    /\ ops' = ops + 1
    /\ arg' = NoneV
    /\ res' = NoneV
    /\ UNCHANGED <<cfg, svc, run_vars, mem, tasks, now>>

Revoke == RevokeOn(ConsentKeys)

\* The capability and purpose of a verification: a capability with the
\* purpose left to its mapping, or an explicit purpose, which overrides the
\* mapping of whatever capability comes with it.
VerifyRequests ==
    [capability : ConsentCapabilities, purpose : {NoneV}] \cup [capability : {"SYMPTOM_DOCUMENTATION"}, purpose : {{x} : x \in Purposes}]

\* verify_consent(user_id, profile_id, capability, purpose), lines 66-186,
\* for one of the given users, profiles and requests.
VerifyFor(users, profiles, requests) ==
    /\ \E user_id \in users, profile_id \in profiles, request \in requests :
        LET v == verify_consent(consent_cache, db, svc.db, now, user_id, profile_id, request.capability, request.purpose)
        IN  /\ consent_cache' = v.cache
            /\ trail' = AfterVerify(trail, consent_cache, v.cache)
            /\ res' = {v.result}
            /\ arg' = {[user_id |-> user_id, profile_id |-> profile_id, capability |-> request.capability, purpose |-> request.purpose]}
    /\ UNCHANGED <<cfg, svc, run_vars, mem, tasks, db, now, ops>>

Verify == VerifyFor(Users, Profiles, VerifyRequests)

\* A day passes.
Tick ==
    /\ now < MaxNow
    /\ now' = now + 1
    /\ arg' = NoneV
    /\ res' = NoneV
    /\ UNCHANGED <<cfg, svc, run_vars, aux_vars, consent_cache, db, ops>>

NextConsent ==
    \/ Grant
    \/ Revoke
    \/ Verify
    \/ Tick

SpecConsent == InitConsent /\ [][NextConsent]_vars

\* The stored record of a key is there, not revoked and not expired.
ValidInStore(key) ==
    /\ svc.db
    /\ db[key] # NoneV
    /\ The(db[key]).revoked_at = NoneV
    /\ now <= The(The(db[key]).expires_at)

\* The purpose the last verification was about, if any.
VerifiedPurpose == IF The(arg).purpose # NoneV THEN The(arg).purpose ELSE _map_capability_to_purpose(The(arg).capability)

\* C9: when the astra_usage record of the user and profile is missing,
\* revoked or expired, verify_consent returns granted = false, whatever the
\* capability, the purpose, the purpose's own record and the cache.
C9_AstraUsageFirst ==
    (res # NoneV /\ ~ValidInStore(<<The(arg).user_id, The(arg).profile_id, ASTRA_USAGE>>)) =>
        /\ ~The(res).granted
        /\ The(res).purpose = ASTRA_USAGE

\* astra_usage revoked while the requested purpose is validly granted and
\* its granted result is still in the cache.
C9_Witness ==
    /\ res # NoneV
    /\ The(arg).purpose = {"document_upload"}
    /\ ValidInStore(<<The(arg).user_id, The(arg).profile_id, "document_upload">>)
    /\ consent_cache[cache_key(The(arg).user_id, The(arg).profile_id, "document_upload")] # NoneV
    /\ db[<<The(arg).user_id, The(arg).profile_id, ASTRA_USAGE>>] # NoneV
    /\ The(db[<<The(arg).user_id, The(arg).profile_id, ASTRA_USAGE>>]).revoked_at # NoneV
    /\ ~The(res).granted

\* The status the order of C10 gives the stored record of a key.
StatusInOrder(key) ==
    IF db[key] = NoneV THEN "not_requested"
    ELSE IF The(db[key]).revoked_at # NoneV THEN "revoked"
    ELSE IF now > The(The(db[key]).expires_at) THEN "expired"
    ELSE "granted"

\* C10: with astra_usage valid and a purpose to verify, the result carries
\* the status of the stored record in the order not found, revoked, expired,
\* granted; granted is true only with status granted; and every cached
\* result is a granted one.
C10_StatusOrder ==
    /\ (res # NoneV /\ VerifiedPurpose # NoneV /\ ValidInStore(<<The(arg).user_id, The(arg).profile_id, ASTRA_USAGE>>)) =>
        /\ The(res).purpose = The(VerifiedPurpose)
        /\ The(res).status = StatusInOrder(<<The(arg).user_id, The(arg).profile_id, The(VerifiedPurpose)>>)
        /\ The(res).granted <=> The(res).status = "granted"
    /\ \A key \in DOMAIN consent_cache :
        consent_cache[key] # NoneV => (The(consent_cache[key]).granted /\ The(consent_cache[key]).status = "granted")

\* A record that is both revoked and expired, verified as revoked.
C10_Witness ==
    /\ res # NoneV
    /\ VerifiedPurpose = {"rag_memory_storage"}
    /\ ValidInStore(<<The(arg).user_id, The(arg).profile_id, ASTRA_USAGE>>)
    /\ db[<<The(arg).user_id, The(arg).profile_id, "rag_memory_storage">>] # NoneV
    /\ The(db[<<The(arg).user_id, The(arg).profile_id, "rag_memory_storage">>]).revoked_at # NoneV
    /\ now > The(The(db[<<The(arg).user_id, The(arg).profile_id, "rag_memory_storage">>]).expires_at)
    /\ The(res).status = "revoked"

\* The last verification was about the purpose of this key, for its user and
\* profile; astra_usage is part of every verification.
VerifiedKey(key) ==
    /\ res # NoneV
    /\ The(arg).user_id = key[1]
    /\ The(arg).profile_id = key[2]
    /\ (key[3] = ASTRA_USAGE \/ VerifiedPurpose = {key[3]})

\* What a verification answers about a key whose grant was followed by a
\* revocation: not granted; with status revoked for that purpose, unless the
\* astra_usage check has already answered for it; and no cache entry.
RevokedVerdict ==
    \A key \in ConsentKeys :
        trail[key] \in Revoked =>
            /\ consent_cache[cache_key(key[1], key[2], key[3])] = NoneV
            /\ VerifiedKey(key) => ~The(res).granted
            /\ (VerifiedKey(key) /\ (key[3] = ASTRA_USAGE \/ ValidInStore(<<key[1], key[2], ASTRA_USAGE>>))) =>
                /\ The(res).status = "revoked"
                /\ The(res).purpose = key[3]

\* A step that revokes the record of a key removes the cache entry of that
\* key and leaves every other entry as it was.
RevokeExact ==
    \A key \in ConsentKeys :
        (ops' = ops + 1 /\ db'[key] # db[key] /\ The(db'[key]).revoked_at # NoneV) =>
            /\ consent_cache'[cache_key(key[1], key[2], key[3])] = NoneV
            /\ \A x \in DOMAIN consent_cache :
                x # cache_key(key[1], key[2], key[3]) => consent_cache'[x] = consent_cache[x]

\* C11: after grant_consent followed by revoke_consent on the same key, a
\* verify_consent for that key returns granted = false with status revoked,
\* also when a verification in between had cached a granted result; and
\* revoke_consent removes the cache entry of exactly that key.
C11_RevokeThenVerify == [][RevokedVerdict' /\ RevokeExact]_vars

\* A verification of a purpose that was granted, verified and cached, then
\* revoked.
C11_Witness ==
    /\ res # NoneV
    /\ VerifiedPurpose = {"document_upload"}
    /\ trail[<<The(arg).user_id, The(arg).profile_id, "document_upload">>] = "revoked_cached"
    /\ ValidInStore(<<The(arg).user_id, The(arg).profile_id, ASTRA_USAGE>>)
    /\ The(res).status = "revoked"

(***************************************************************************)
(* Concurrent calls on one ConsentManager.  Each call is a task; a task    *)
(* runs without interruption up to its next persistence call, the store    *)
(* serves that call at some later moment, and the task resumes at a still  *)
(* later one.  consent_manager.py takes no lock anywhere.                  *)
(***************************************************************************)
RaceKeys == {<<"u1", "p1", ASTRA_USAGE>>, <<"u1", "p1", "document_upload">>}

RaceCapabilities == {"GENERAL_WELLNESS_CHAT", "DOCUMENT_INTERPRETATION"}

\* duration_days of grant_consent when none is given.
DefaultDuration == 365

TaskIds == 1..MaxCalls

NoTask == [op |-> "none", pc |-> "free", key |-> <<"", "", "">>, capability |-> "", seen |-> NoneV, ok |-> FALSE, late |-> {}, result |-> NoneV]

\* verify_consent from the cached astra_usage result, or from its record,
\* onwards (lines 99-126): [task, cache] with the task either done or about
\* to query the record of its purpose.
AfterAstra(task, cache, t, astra_result) ==
    LET mapped == _map_capability_to_purpose(task.capability)
        k == cache_key(task.key[1], task.key[2], The(mapped))
        cached == CacheGet(cache, k)
    IN  IF mapped = NoneV
            THEN [task EXCEPT !.pc = "done", !.result = {[astra_result EXCEPT !.granted = TRUE, !.purpose = ASTRA_USAGE, !.status = "granted"]}]
        ELSE IF cached # NoneV /\ ~_is_expired(The(cached), t)
            THEN [task EXCEPT !.pc = "done", !.result = cached]
        ELSE [task EXCEPT !.pc = "purpose_call"]

\* [result, cache]: the verdict on a record that came back from the store
\* (lines 128-186, and 202-235 for astra_usage).
Evaluate(cache, consent_record, t, key) ==
    LET purpose == key[3]
        with_record == IF purpose = ASTRA_USAGE THEN NoneV ELSE consent_record
    IN  IF consent_record = NoneV
            THEN [result |-> ConsentResult(FALSE, NoneV, purpose, "not_requested"), cache |-> cache]
        ELSE IF The(consent_record).revoked_at # NoneV
            THEN [result |-> ConsentResult(FALSE, with_record, purpose, "revoked"), cache |-> cache]
        ELSE IF _is_expired(The(consent_record), t)
            THEN [result |-> ConsentResult(FALSE, with_record, purpose, "expired"), cache |-> cache]
        ELSE LET result == ConsentResult(TRUE, consent_record, purpose, "granted")
             IN  [result |-> result, cache |-> CachePut(cache, cache_key(key[1], key[2], purpose), result)]

\* The keys among those of a verification whose last completed operation is
\* a successful revocation.
RevokedKeys(user_id, profile_id, capability) ==
    {key \in RaceKeys :
        /\ key[1] = user_id
        /\ key[2] = profile_id
        /\ key[3] \in {ASTRA_USAGE} \cup _map_capability_to_purpose(capability)
        /\ trail[key] \in Revoked}

InitRace ==
    /\ NoRun
    /\ cfg = Config(NoneV, NoneV, WellFormedLibrary)
    /\ svc = Services(TRUE, FALSE, FALSE, FALSE)
    /\ \/ /\ db = [k \in RaceKeys |-> NoneV]
          /\ trail = [k \in RaceKeys |-> "none"]
       \/ /\ db = [k \in RaceKeys |-> {GrantedRecord(0, DefaultDuration)}]
          /\ trail = [k \in RaceKeys |-> "granted"]
    /\ consent_cache = EmptyCache(RaceKeys)
    /\ now = 0
    /\ ops = 0
    /\ arg = NoneV
    /\ res = NoneV
    /\ mem = << >>
    /\ tasks = [i \in TaskIds |-> NoTask]

\* A verify_consent call starts and runs to its first query of the store, or
\* to its end when the cache answers (lines 93-126, 190-200).
StartVerify ==
    /\ ops < MaxCalls
    /\ \E capability \in RaceCapabilities :
        LET i == ops + 1
            task == [NoTask EXCEPT !.op = "verify", !.key = <<"u1", "p1", ASTRA_USAGE>>, !.capability = capability,
                                   !.late = RevokedKeys("u1", "p1", capability)]
            cached == CacheGet(consent_cache, cache_key("u1", "p1", ASTRA_USAGE))
        IN  tasks' = [tasks EXCEPT ![i] =
                        IF cached # NoneV /\ ~_is_expired(The(cached), now)
                            THEN AfterAstra(task, consent_cache, now, The(cached))
                        ELSE [task EXCEPT !.pc = "astra_call"]]
    /\ ops' = ops + 1
    /\ UNCHANGED <<cfg, svc, run_vars, consent_vars, arg, res, trail, mem>>

\* A grant_consent call starts and runs to its write (lines 264-280).  A
\* verification in flight is from here on no longer one that follows the
\* revocation of this key without a grant.
StartGrant ==
    /\ ops < MaxCalls
    /\ \E key \in RaceKeys :
        /\ tasks' = [i \in TaskIds |->
                        IF i = ops + 1 THEN [NoTask EXCEPT !.op = "grant", !.pc = "save_call", !.key = key]
                        ELSE [tasks[i] EXCEPT !.late = @ \ {key}]]
        /\ trail' = AfterGrant(trail, key)
    /\ ops' = ops + 1
    /\ UNCHANGED <<cfg, svc, run_vars, consent_vars, arg, res, mem>>

\* A revoke_consent call starts and runs to its update (lines 329-332).
StartRevoke ==
    /\ ops < MaxCalls
    /\ \E key \in RaceKeys :
        tasks' = [tasks EXCEPT ![ops + 1] = [NoTask EXCEPT !.op = "revoke", !.pc = "revoke_call", !.key = key]]
    /\ ops' = ops + 1
    /\ UNCHANGED <<cfg, svc, run_vars, consent_vars, arg, res, trail, mem>>

\* The store serves the pending call of a task.
Serve ==
    \E i \in TaskIds :
        LET task == tasks[i]
            key == IF task.pc = "purpose_call" THEN <<task.key[1], task.key[2], The(_map_capability_to_purpose(task.capability))>> ELSE task.key
        IN  \/ /\ task.pc \in {"astra_call", "purpose_call"}
               /\ tasks' = [tasks EXCEPT ![i] = [task EXCEPT !.pc = IF task.pc = "astra_call" THEN "astra_wait" ELSE "purpose_wait",
                                                             !.key = key,
                                                             !.seen = _get_consent_from_db(db, svc.db, key)]]
               /\ UNCHANGED db
            \/ /\ task.pc = "save_call"
               /\ LET written == _save_consent_to_db(db, svc.db, key, GrantedRecord(now, DefaultDuration))
                  IN  /\ db' = written.store
                      /\ tasks' = [tasks EXCEPT ![i] = [task EXCEPT !.pc = "save_wait", !.ok = written.ok]]
            \/ /\ task.pc = "revoke_call"
               /\ LET revoked == _revoke_consent_in_db(db, svc.db, key, now)
                  IN  /\ db' = revoked.store
                      /\ tasks' = [tasks EXCEPT ![i] = [task EXCEPT !.pc = "revoke_wait", !.ok = revoked.ok]]
    /\ UNCHANGED <<cfg, svc, run_vars, consent_cache, now, ops, arg, res, trail, mem>>

\* A task resumes with the answer of the store and runs to its next query or
\* to its end (lines 202-235, 99-126, 128-186, 282-306, 334-354).
Resume ==
    \E i \in TaskIds :
        LET task == tasks[i]
            k == cache_key(task.key[1], task.key[2], task.key[3])
            verdict == Evaluate(consent_cache, task.seen, now, task.key)
        IN  \/ /\ task.pc = "astra_wait"
               /\ consent_cache' = verdict.cache
               /\ tasks' = [tasks EXCEPT ![i] =
                                IF ~verdict.result.granted THEN [task EXCEPT !.pc = "done", !.result = {verdict.result}]
                                ELSE AfterAstra(task, verdict.cache, now, verdict.result)]
               /\ UNCHANGED trail
            \/ /\ task.pc = "purpose_wait"
               /\ consent_cache' = verdict.cache
               /\ tasks' = [tasks EXCEPT ![i] = [task EXCEPT !.pc = "done", !.result = {verdict.result}]]
               /\ UNCHANGED trail
            \/ /\ task.pc = "save_wait"
               /\ consent_cache' = IF task.ok THEN CacheDel(consent_cache, k) ELSE consent_cache
               /\ tasks' = [tasks EXCEPT ![i] = [task EXCEPT !.pc = "done"]]
               /\ UNCHANGED trail
            \/ /\ task.pc = "revoke_wait"
               /\ consent_cache' = IF task.ok THEN CacheDel(consent_cache, k) ELSE consent_cache
               /\ tasks' = [tasks EXCEPT ![i] = [task EXCEPT !.pc = "done"]]
               /\ trail' = IF task.ok THEN AfterRevoke(trail, task.key) ELSE trail
    /\ UNCHANGED <<cfg, svc, run_vars, db, now, ops, arg, res, mem>>

NextRace ==
    \/ StartVerify
    \/ StartGrant
    \/ StartRevoke
    \/ Serve
    \/ Resume

SpecRace == InitRace /\ [][NextRace]_vars

\* C12: under any interleaving of verify_consent, grant_consent and
\* revoke_consent calls on one key, a verification that started after a
\* revocation returned success, with no grant started since, returns
\* granted = false; and once every call has returned, the cache holds no
\* entry for a key whose last completed operation is a revocation.
C12_NoGrantedAfterRevoke ==
    /\ \A i \in TaskIds :
        (tasks[i].op = "verify" /\ tasks[i].pc = "done" /\ tasks[i].late # {}) => ~The(tasks[i].result).granted
    /\ (\A i \in TaskIds : tasks[i].pc \in {"free", "done"}) =>
        \A key \in RaceKeys :
            trail[key] \in Revoked => consent_cache[cache_key(key[1], key[2], key[3])] = NoneV

(***************************************************************************)
(* The pipeline over a store whose rag_memory_storage consent was granted  *)
(* with duration_days = 0, while days pass between the runs.               *)
(***************************************************************************)
ShortLived == [k \in PipelineKeys |-> IF k[3] = "rag_memory_storage" THEN {GrantedRecord(0, 0)} ELSE {ValidRecord}]

InitExpiry ==
    /\ NoAux
    /\ NoRun
    /\ cfg = Config(NoneV, NoneV, WellFormedLibrary)
    /\ svc = Services(TRUE, TRUE, TRUE, TRUE)
    /\ db = ShortLived
    /\ consent_cache = EmptyCache(PipelineKeys)
    /\ now = 0
    /\ ops = 0
    /\ arg = NoneV
    /\ res = NoneV

\* A day passes between two runs of process().
DayPasses ==
    /\ pc = "idle"
    /\ now < MaxNow
    /\ now' = now + 1
    /\ UNCHANGED <<cfg, svc, run_vars, consent_cache, db, unit_vars>>

NextExpiry ==
    \/ Next
    \/ DayPasses

SpecExpiry == InitExpiry /\ [][NextExpiry]_vars

\* The stored record of a key is past its expires_at and not revoked.
ExpiredInStore(key) ==
    /\ svc.db
    /\ db[key] # NoneV
    /\ The(db[key]).revoked_at = NoneV
    /\ now > The(The(db[key]).expires_at)

\* The key of the purpose the capability of the current run maps to, if any.
RunPurposeKeys ==
    {<<PipelineUser, PipelineProfile, p>> : p \in _map_capability_to_purpose(The(loc.capability_result).capability)}

\* C13: once now > expires_at, verify_consent returns granted = false with
\* status expired for that key, on every call and also when a granted result
\* for it is still in the cache; and process() for a capability that needs
\* that purpose answers CONSENT_REQUIRED on every submission, without
\* generating anything.
C13_ExpiredNeverGranted ==
    LET astra == <<PipelineUser, PipelineProfile, ASTRA_USAGE>>
        verdict == The(loc.consent_check)
    IN  loc.consent_check # NoneV =>
            /\ ExpiredInStore(astra) =>
                /\ ~verdict.granted
                /\ verdict.status = "expired"
                /\ verdict.purpose = ASTRA_USAGE
            /\ \A key \in RunPurposeKeys :
                (ValidInStore(astra) /\ ExpiredInStore(key)) =>
                    /\ ~verdict.granted
                    /\ verdict.status = "expired"
                    /\ verdict.purpose = key[3]
            /\ (pc = "returned" /\ \E key \in RunPurposeKeys \cup {astra} : ExpiredInStore(key)) =>
                /\ The(resp).capability = "CONSENT_REQUIRED"
                /\ ~Called("generate")

\* The second submission, a day after the first one had the granted result
\* cached: the stale entry is still in the cache and the answer is
\* CONSENT_REQUIRED.
C13_Witness ==
    /\ pc = "returned"
    /\ runs = 2
    /\ now = 1
    /\ loc.consent_check # NoneV
    /\ The(loc.consent_check).status = "expired"
    /\ The(loc.consent_check).purpose = "rag_memory_storage"
    /\ consent_cache[cache_key(PipelineUser, PipelineProfile, "rag_memory_storage")] # NoneV
    /\ The(resp).capability = "CONSENT_REQUIRED"

(***************************************************************************)
(* One ConsentManager serving several users and profiles.  user_id and     *)
(* profile_id are whatever strings the callers pass (routes.py:45-46,      *)
(* 81-95 take them unvalidated from the request).                          *)
(***************************************************************************)
SeveralUsers == {"u1", "u1:p1"}

SeveralProfiles == {"p1", "p1:p1"}

\* The consents that are granted and revoked: those of three of the four
\* pairs of a user and a profile; every pair is verified.
IsolationKeys == {k \in SeveralUsers \X SeveralProfiles \X {ASTRA_USAGE, "document_upload"} : <<k[1], k[2]>> # <<"u1:p1", "p1:p1">>}

IsolationRequests == [capability : {"GENERAL_WELLNESS_CHAT", "DOCUMENT_INTERPRETATION"}, purpose : {NoneV}]

InitIsolation ==
    /\ NoRun
    /\ cfg = Config(NoneV, NoneV, WellFormedLibrary)
    /\ svc = Services(TRUE, FALSE, FALSE, FALSE)
    /\ db = [k \in IsolationKeys |-> NoneV]
    /\ consent_cache = EmptyCache(SeveralUsers \X SeveralProfiles \X {ASTRA_USAGE, "document_upload"})
    /\ now = 0
    /\ ops = 0
    /\ arg = NoneV
    /\ res = NoneV
    /\ trail = [k \in IsolationKeys |-> "none"]
    /\ mem = << >>
    /\ tasks = << >>

GrantAny == GrantOn(IsolationKeys)

RevokeAny == RevokeOn(IsolationKeys)

VerifyAny == VerifyFor(SeveralUsers, SeveralProfiles, IsolationRequests)

NextIsolation ==
    \/ GrantAny
    \/ RevokeAny
    \/ VerifyAny
    \/ Tick

SpecIsolation == InitIsolation /\ [][NextIsolation]_vars

\* C14: verify_consent for (user, profile, purpose) returns granted = true
\* only if the store holds an unrevoked, unexpired record for exactly that
\* user, profile and purpose and one for that user, profile and astra_usage;
\* no record or cache entry of another purpose, profile or user satisfies it.
C14_PurposeAndProfileSpecific ==
    (res # NoneV /\ The(res).granted) =>
        /\ ValidInStore(<<The(arg).user_id, The(arg).profile_id, ASTRA_USAGE>>)
        /\ \A p \in VerifiedPurpose : ValidInStore(<<The(arg).user_id, The(arg).profile_id, p>>)

(***************************************************************************)
(* RAGMemory (rag_memory.py) with faiss installed: one IndexFlatL2 and one *)
(* metadata dict per profile.  A text is a sequence of phrases; its        *)
(* embedding is a point on a line, in units that make the squared          *)
(* distance come out in tenths.  The clock is in days.                     *)
(***************************************************************************)
FORBIDDEN == {"diagnosis_progress", "treatment_effectiveness", "emotional_dependency", "mental_health_inference"}

ALLOWED == {"chat_history_summary", "user_preferences", "doctor_instructions", "reminders", "user_stated_goals"}

\* The memory types the callers pass: two allowed ones, a forbidden one and
\* one that is on neither list.
MemoryTypes == {"user_preferences", "reminders", "diagnosis_progress", "medical_record"}

MemProfiles == {"p1", "p2"}

\* The queries asked.  The content "you have tea" is redacted before it is
\* stored and is then near both queries; the content "likes tea" is far from
\* the second query.
Queries == {<<"likes tea">>, <<"you have", "tea">>}

\* similarity_threshold of retrieve when none is given (0.7), in tenths.
SimilarityThreshold == 7

\* The mutant of _is_allowed_memory_type that consults the deny-list only.
_is_allowed_memory_type_DenyListOnly(memory_type) == memory_type \notin FORBIDDEN

_is_allowed_memory_type(memory_type) ==
    IF memory_type \in FORBIDDEN THEN FALSE ELSE memory_type \in ALLOWED

diagnosis_patterns == {"diagnosed with", "you have", "suffering from", "condition is"}

effectiveness_patterns == {"treatment is working", "medicine is effective", "getting better", "healing progress"}

\* Every phrase that matches a pattern is replaced by the redaction marker.
_sanitize_content(content, memory_type) ==
    [i \in 1..Len(content) |-> IF content[i] \in diagnosis_patterns \cup effectiveness_patterns THEN "[REDACTED]" ELSE content[i]]

\* The embedding model: near texts get near points.
_generate_embedding(text) ==
    CASE text = <<"likes tea">> -> 0
      [] text = <<"[REDACTED]", "tea">> -> 2
      [] text = <<"you have", "tea">> -> 4
      [] OTHER -> 20

\* The hash of profile, type, content and the time of the call; stamp stands
\* for the timestamp, which differs from call to call.
_generate_memory_id(profile_id, memory_type, content, stamp) == <<profile_id, memory_type, content, stamp>>

NoMemories == [indexes |-> [p \in MemProfiles |-> NoneV], metadata |-> [p \in MemProfiles |-> NoneV]]

\* The vectors of a profile's index, none when it has no index.
Vectors(m, profile_id) == IF m.indexes[profile_id] = NoneV THEN << >> ELSE The(m.indexes[profile_id])

\* The metadata dict of a profile, empty when it has none.
Metadata(m, profile_id) == IF m.metadata[profile_id] = NoneV THEN << >> ELSE The(m.metadata[profile_id])

\* The mutant of _store_in_faiss that keeps one index for all profiles.
_store_in_faiss_Shared(m, profile_id, memory_id, embedding, memory_type, content, expires_at, t) ==
    LET index == Append(Vectors(m, "p1"), embedding)
        vector_id == Len(index) - 1
        meta == [memory_id |-> memory_id, memory_type |-> memory_type, content |-> content, created_at |-> t, expires_at |-> expires_at]
        md == Metadata(m, "p1")
    IN  [ok |-> TRUE,
         mem |-> [indexes |-> [m.indexes EXCEPT !["p1"] = {index}],
                  metadata |-> [m.metadata EXCEPT !["p1"] = {[i \in DOMAIN md \cup {vector_id} |-> IF i = vector_id THEN meta ELSE md[i]]}]]]

\* _store_in_faiss that numbers the new entry by the count of the entries
\* the metadata holds.
_store_in_faiss_CountLive(m, profile_id, memory_id, embedding, memory_type, content, expires_at, t) ==
    LET index == Append(Vectors(m, profile_id), embedding)
        md == Metadata(m, profile_id)
        vector_id == Cardinality(DOMAIN md)
        meta == [memory_id |-> memory_id, memory_type |-> memory_type, content |-> content, created_at |-> t, expires_at |-> expires_at]
    IN  [ok |-> TRUE,
         mem |-> [indexes |-> [m.indexes EXCEPT ![profile_id] = {index}],
                  metadata |-> [m.metadata EXCEPT ![profile_id] = {[i \in DOMAIN md \cup {vector_id} |-> IF i = vector_id THEN meta ELSE md[i]]}]]]

\* [ok, mem]: the vector appended to the profile's index and its metadata
\* entered under the vector's position.
_store_in_faiss(m, profile_id, memory_id, embedding, memory_type, content, expires_at, t) ==
    LET index == Append(Vectors(m, profile_id), embedding)
        vector_id == Len(index) - 1
        meta == [memory_id |-> memory_id, memory_type |-> memory_type, content |-> content, created_at |-> t, expires_at |-> expires_at]
        md == Metadata(m, profile_id)
    IN  [ok |-> TRUE,
         mem |-> [indexes |-> [m.indexes EXCEPT ![profile_id] = {index}],
                  metadata |-> [m.metadata EXCEPT ![profile_id] = {[i \in DOMAIN md \cup {vector_id} |-> IF i = vector_id THEN meta ELSE md[i]]}]]]

\* [result, mem] of store_memory(profile_id, memory_type, content, ttl_days)
\* called at time t.
store_memory(m, profile_id, memory_type, content, ttl_days, t, stamp) ==
    IF ~_is_allowed_memory_type(memory_type)
        THEN [result |-> [success |-> FALSE, memory_id |-> NoneV, memory_type |-> memory_type, expires_at |-> NoneV], mem |-> m]
    ELSE LET sanitized_content == _sanitize_content(content, memory_type)
             embedding == _generate_embedding(sanitized_content)
             memory_id == _generate_memory_id(profile_id, memory_type, sanitized_content, stamp)
             expires_at == t + ttl_days
             stored == _store_in_faiss(m, profile_id, memory_id, embedding, memory_type, sanitized_content, expires_at, t)
         IN  IF stored.ok
                 THEN [result |-> [success |-> TRUE, memory_id |-> {memory_id}, memory_type |-> memory_type, expires_at |-> {expires_at}], mem |-> stored.mem]
             ELSE [result |-> [success |-> FALSE, memory_id |-> NoneV, memory_type |-> memory_type, expires_at |-> NoneV], mem |-> stored.mem]

\* The squared L2 distance of two points, in tenths.
Distance(a, b) == (a - b) * (a - b)

\* similarity = 1 / (1 + distance) and the test similarity >= threshold.
Similar(dist, similarity_threshold) == 100 >= similarity_threshold * (10 + dist)

\* IndexFlatL2.search: the positions of the top_k nearest vectors, nearest
\* first.  Which of two equally distant vectors comes first is left to
\* faiss, so every such order is an outcome.
Search(index, query_embedding, top_k) ==
    LET n == Len(index)
        found == IF top_k < n THEN top_k ELSE n
        dist(i) == Distance(index[i + 1], query_embedding)
    IN  {r \in [1..found -> 0..(n - 1)] :
            /\ \A i, j \in 1..found : i # j => r[i] # r[j]
            /\ \A i \in 1..found : \A j \in 1..found : i < j => dist(r[i]) <= dist(r[j])
            /\ \A v \in 0..(n - 1) : (\A i \in 1..found : r[i] # v) => \A i \in 1..found : dist(r[i]) <= dist(v)}

\* The results _search_faiss appends for the positions that passed its
\* tests.
Hits(m, profile_id, kept) ==
    LET md == Metadata(m, profile_id)
    IN  [i \in 1..Len(kept) |-> [content |-> md[kept[i]].content, memory_id |-> md[kept[i]].memory_id]]

\* The mutant of _search_faiss without the test of the memory type.
_search_faiss_AnyType(m, profile_id, query_embedding, memory_type, top_k, similarity_threshold, t) ==
    LET index == Vectors(m, profile_id)
        md == Metadata(m, profile_id)
        keep(idx) ==
            /\ Similar(Distance(index[idx + 1], query_embedding), similarity_threshold)
            /\ idx \in DOMAIN md
            /\ ~(t > md[idx].expires_at)
    IN  IF m.indexes[profile_id] = NoneV \/ m.metadata[profile_id] = NoneV THEN {<< >>}
        ELSE {Hits(m, profile_id, SelectSeq(ranking, keep)) : ranking \in Search(index, query_embedding, top_k)}

\* The mutant of _search_faiss without the test of the expiry.
_search_faiss_NoExpiry(m, profile_id, query_embedding, memory_type, top_k, similarity_threshold, t) ==
    LET index == Vectors(m, profile_id)
        md == Metadata(m, profile_id)
        keep(idx) ==
            /\ Similar(Distance(index[idx + 1], query_embedding), similarity_threshold)
            /\ idx \in DOMAIN md
            /\ md[idx].memory_type = memory_type
    IN  IF m.indexes[profile_id] = NoneV \/ m.metadata[profile_id] = NoneV THEN {<< >>}
        ELSE {Hits(m, profile_id, SelectSeq(ranking, keep)) : ranking \in Search(index, query_embedding, top_k)}

\* The result lists _search_faiss may return at time t: no index, no result;
\* an index without metadata raises KeyError, which is caught (line 500).
_search_faiss(m, profile_id, query_embedding, memory_type, top_k, similarity_threshold, t) ==
    LET index == Vectors(m, profile_id)
        md == Metadata(m, profile_id)
        keep(idx) ==
            /\ Similar(Distance(index[idx + 1], query_embedding), similarity_threshold)
            /\ idx \in DOMAIN md
            /\ md[idx].memory_type = memory_type
            /\ ~(t > md[idx].expires_at)
    IN  IF m.indexes[profile_id] = NoneV \/ m.metadata[profile_id] = NoneV THEN {<< >>}
        ELSE {Hits(m, profile_id, SelectSeq(ranking, keep)) : ranking \in Search(index, query_embedding, top_k)}

\* The contents of the results joined by blank lines.
Join(results) == [i \in 1..Len(results) |-> results[i].content]

\* What retrieve(query, context_type, profile_id, top_k, similarity_threshold)
\* may return at time t: [context, results], context an option.
retrieve(m, query, context_type, profile_id, top_k, similarity_threshold, t) ==
    IF ~_is_allowed_memory_type(context_type) THEN {[context |-> NoneV, results |-> << >>]}
    ELSE {[context |-> IF results = << >> THEN NoneV ELSE {Join(results)}, results |-> results] :
            results \in _search_faiss(m, profile_id, _generate_embedding(query), context_type, top_k, similarity_threshold, t)}

\* The mutant of _delete_from_faiss that reports a deletion it did not make.
_delete_from_faiss_KeepEntry(m, profile_id, memory_id) ==
    LET md == Metadata(m, profile_id)
        found == {i \in DOMAIN md : md[i].memory_id = memory_id}
    IN  [ok |-> m.metadata[profile_id] # NoneV /\ found # {}, mem |-> m]

\* [ok, mem]: the first metadata entry with the memory id removed; the index
\* is left as it is.
_delete_from_faiss(m, profile_id, memory_id) ==
    LET md == Metadata(m, profile_id)
        found == {i \in DOMAIN md : md[i].memory_id = memory_id}
        first == CHOOSE i \in found : \A j \in found : i <= j
    IN  IF m.metadata[profile_id] = NoneV \/ found = {} THEN [ok |-> FALSE, mem |-> m]
        ELSE [ok |-> TRUE, mem |-> [m EXCEPT !.metadata[profile_id] = {[i \in DOMAIN md \ {first} |-> md[i]]}]]

\* [count, mem]: the metadata entries of the type removed, or, with no type
\* given, the profile's metadata and index dropped.
_clear_faiss_index(m, profile_id, memory_type) ==
    LET md == Metadata(m, profile_id)
        of_type == {i \in DOMAIN md : md[i].memory_type \in memory_type}
    IN  IF m.metadata[profile_id] = NoneV THEN [count |-> 0, mem |-> m]
        ELSE IF memory_type # NoneV
            THEN [count |-> Cardinality(of_type), mem |-> [m EXCEPT !.metadata[profile_id] = {[i \in DOMAIN md \ of_type |-> md[i]]}]]
        ELSE [count |-> Cardinality(DOMAIN md), mem |-> [m EXCEPT !.metadata[profile_id] = NoneV, !.indexes[profile_id] = NoneV]]

\* The memory ids a profile's metadata holds.
MemoryIds(m, profile_id) == {Metadata(m, profile_id)[i].memory_id : i \in DOMAIN Metadata(m, profile_id)}

\* The store_memory calls a client may make, each at most once and in any
\* order: two memories of different types for one profile, near each other,
\* a memory for another profile, and two calls with a type that is not
\* allowed.  ttl_days is any of TtlDays.
StoreRequests ==
    { [profile_id |-> "p1", memory_type |-> "user_preferences", content |-> <<"likes tea">>],
      [profile_id |-> "p1", memory_type |-> "reminders", content |-> <<"you have", "tea">>],
      [profile_id |-> "p2", memory_type |-> "user_preferences", content |-> <<"you have", "tea">>],
      [profile_id |-> "p1", memory_type |-> "diagnosis_progress", content |-> <<"likes tea">>],
      [profile_id |-> "p2", memory_type |-> "medical_record", content |-> <<"likes tea">>] }

TtlDays == {0, 1}

\* The history: the store requests that were carried out, and the ids of the
\* memories that delete_memory reported deleted.
NoHistory == [issued |-> {}, gone |-> {}]

InitMemory ==
    /\ NoRun
    /\ cfg = Config(NoneV, NoneV, WellFormedLibrary)
    /\ svc = Services(FALSE, FALSE, FALSE, FALSE)
    /\ db = NoRecords
    /\ consent_cache = EmptyCache(PipelineKeys)
    /\ now = 0
    /\ ops = 0
    /\ arg = NoneV
    /\ res = NoneV
    /\ trail = NoHistory
    /\ mem = NoMemories
    /\ tasks = << >>

\* store_memory(profile_id, memory_type, content, ttl_days), lines 126-217.
StoreMemory ==
    /\ arg = NoneV
    /\ \E request \in StoreRequests \ trail.issued, ttl_days \in TtlDays :
        LET s == store_memory(mem, request.profile_id, request.memory_type, request.content, ttl_days, now, ops + 1)
        IN  /\ mem' = s.mem
            /\ res' = {s.result}
            /\ arg' = {[op |-> "store", profile_id |-> request.profile_id, memory_type |-> request.memory_type, ttl_days |-> ttl_days]}
            /\ trail' = IF s.result.success THEN [trail EXCEPT !.issued = @ \cup {request}] ELSE trail
            /\ ops' = IF s.result.success THEN ops + 1 ELSE ops
    /\ UNCHANGED <<cfg, svc, run_vars, consent_vars, tasks>>

\* delete_memory(profile_id, memory_id), lines 276-311, for the id of a
\* memory of any profile or an id no memory has.
DeleteMemory ==
    /\ arg = NoneV
    /\ \E profile_id \in MemProfiles, memory_id \in UNION {MemoryIds(mem, p) : p \in MemProfiles} \cup {<<"unknown">>} :
        LET d == _delete_from_faiss(mem, profile_id, memory_id)
        IN  /\ mem' = d.mem
            /\ res' = {[success |-> d.ok]}
            /\ arg' = {[op |-> "delete", profile_id |-> profile_id, memory_id |-> memory_id]}
            /\ trail' = IF d.ok THEN [trail EXCEPT !.gone = @ \cup {memory_id}] ELSE trail
    /\ UNCHANGED <<cfg, svc, run_vars, consent_vars, ops, tasks>>

\* clear_profile_memory(profile_id, memory_type), lines 313-342.
ClearMemory ==
    /\ arg = NoneV
    /\ \E profile_id \in MemProfiles, memory_type \in {NoneV, {"user_preferences"}} :
        LET c == _clear_faiss_index(mem, profile_id, memory_type)
        IN  /\ mem' = c.mem
            /\ res' = {[success |-> TRUE, deleted_count |-> c.count]}
            /\ arg' = {[op |-> "clear", profile_id |-> profile_id, memory_type |-> memory_type]}
            /\ trail' = trail
    /\ UNCHANGED <<cfg, svc, run_vars, consent_vars, ops, tasks>>

\* retrieve(query, context_type, profile_id, top_k), lines 219-274.
RetrieveMemory ==
    /\ arg = NoneV
    /\ \E query \in Queries, context_type \in MemoryTypes, profile_id \in MemProfiles, top_k \in 1..MaxTopK :
        /\ \E r \in retrieve(mem, query, context_type, profile_id, top_k, SimilarityThreshold, now) : res' = {r}
        /\ arg' = {[op |-> "retrieve", query |-> query, context_type |-> context_type, profile_id |-> profile_id, top_k |-> top_k]}
    /\ UNCHANGED <<cfg, svc, run_vars, consent_vars, ops, aux_vars>>

\* The route hands the result to its client (routes.py, lines 378-460) and
\* the next call can be served.
RespondMemory ==
    /\ arg # NoneV
    /\ arg' = NoneV
    /\ res' = NoneV
    /\ UNCHANGED <<cfg, svc, run_vars, consent_vars, ops, aux_vars>>

NextMemory ==
    \/ StoreMemory
    \/ DeleteMemory
    \/ ClearMemory
    \/ RetrieveMemory
    \/ RespondMemory
    \/ Tick

SpecMemory == InitMemory /\ [][NextMemory]_vars

\* The last call is the named RAGMemory operation.
MemoryCall(a, op) == a # NoneV /\ The(a).op = op

\* Every metadata record of every profile.
Records(m) == UNION {{Metadata(m, p)[i] : i \in DOMAIN Metadata(m, p)} : p \in MemProfiles}

\* A store_memory call with a type that is not on the allow-list fails and
\* leaves indexes and metadata as they were.
RefusedStore ==
    (MemoryCall(arg', "store") /\ arg = NoneV /\ The(arg').memory_type \notin ALLOWED)
        => (~The(res').success /\ mem' = mem)

\* C15: store_memory with a memory type outside the allow-list returns
\* success = false and changes neither the index nor the metadata, so every
\* record held has a type of the allow-list.
C15_OnlyAllowedStored == [](\A r \in Records(mem) : r.memory_type \in ALLOWED) /\ [][RefusedStore]_vars

\* A store of a type on neither list was refused while a memory is held.
C15_Witness ==
    /\ MemoryCall(arg, "store")
    /\ The(arg).memory_type = "medical_record"
    /\ ~The(res).success
    /\ Records(mem) # {}

\* The contents stored under a profile, as they were stored.
StoredUnder(profile_id) ==
    {_sanitize_content(r.content, r.memory_type) : r \in {x \in trail.issued : x.profile_id = profile_id}}

\* A retrieval for a profile returned only memories stored under it.
OwnMemoriesOnly ==
    MemoryCall(arg, "retrieve") =>
        \A i \in DOMAIN The(res).results :
            /\ The(res).results[i].memory_id[1] = The(arg).profile_id
            /\ The(res).results[i].content \in StoredUnder(The(arg).profile_id)

\* A call for one profile leaves every retrieval for every other profile as
\* it was.
OthersUntouched ==
    (arg = NoneV /\ arg' # NoneV) =>
        \/ mem' = mem /\ now' = now
        \/ \A profile_id \in MemProfiles \ {The(arg').profile_id} :
            \A query \in Queries, context_type \in MemoryTypes, top_k \in 1..MaxTopK :
                retrieve(mem', query, context_type, profile_id, top_k, SimilarityThreshold, now')
                    = retrieve(mem, query, context_type, profile_id, top_k, SimilarityThreshold, now)

\* C16: memory is isolated per profile: a retrieval for profile P returns
\* only content that was stored under P, and no store, delete, clear or
\* retrieval for another profile changes what a retrieval for P returns.
C16_ProfileIsolation == []OwnMemoriesOnly /\ [][OthersUntouched]_vars

\* A retrieval for p1 returned a memory while p2 holds a memory as near.
C16_Witness ==
    /\ MemoryCall(arg, "retrieve")
    /\ The(arg).profile_id = "p1"
    /\ The(res).results # << >>
    /\ MemoryIds(mem, "p2") # {}

\* The records of a profile that carry the memory id.
RecordsOf(m, profile_id, memory_id) ==
    {Metadata(m, profile_id)[i] : i \in {j \in DOMAIN Metadata(m, profile_id) : Metadata(m, profile_id)[j].memory_id = memory_id}}

\* C17: retrieve never returns a memory whose memory_type differs from the
\* context_type asked for, and returns nothing for a context_type outside
\* the allow-list.
C17_TypeMatches ==
    MemoryCall(arg, "retrieve") =>
        /\ \A i \in DOMAIN The(res).results :
            \A r \in RecordsOf(mem, The(arg).profile_id, The(res).results[i].memory_id) :
                r.memory_type = The(arg).context_type
        /\ The(arg).context_type \notin ALLOWED => (The(res).context = NoneV /\ The(res).results = << >>)

\* A retrieval of two returned a memory of its type from a profile that
\* holds a memory of another type as well.
C17_Witness ==
    /\ MemoryCall(arg, "retrieve")
    /\ The(arg).top_k = 2
    /\ The(res).results # << >>
    /\ \E r \in Records(mem) : r.memory_id[1] = The(arg).profile_id /\ r.memory_type # The(arg).context_type

\* The positions of a profile's live memories of a type that are near the
\* query at time t: recorded, of the type, not expired and similar enough.
LiveNear(m, profile_id, query, context_type, t) ==
    {idx \in DOMAIN Metadata(m, profile_id) :
        /\ Metadata(m, profile_id)[idx].memory_type = context_type
        /\ ~(t > Metadata(m, profile_id)[idx].expires_at)
        /\ Similar(Distance(Vectors(m, profile_id)[idx + 1], _generate_embedding(query)), SimilarityThreshold)}

\* C18: a stored memory of an allowed type that is neither expired nor
\* deleted is returned by a retrieval for its profile and type when the
\* query is near its content and top_k has room for the live memories near
\* the query, whatever other memories were stored, deleted or cleared.
C18_NearMemoryReturned ==
    MemoryCall(arg, "retrieve") =>
        LET a == The(arg)
            live == LiveNear(mem, a.profile_id, a.query, a.context_type, now)
        IN  (a.context_type \in ALLOWED /\ Cardinality(live) <= a.top_k) =>
                \A idx \in live :
                    \E i \in DOMAIN The(res).results :
                        The(res).results[i].memory_id = Metadata(mem, a.profile_id)[idx].memory_id

\* No retrieval returns a memory that delete_memory reported deleted.
DeletedStaysAway ==
    MemoryCall(arg, "retrieve") =>
        \A i \in DOMAIN The(res).results : The(res).results[i].memory_id \notin trail.gone

\* delete_memory of an id the profile holds removes its record and leaves
\* the index alone; of an id the profile does not hold it fails and changes
\* nothing.
DeleteExact ==
    (arg = NoneV /\ MemoryCall(arg', "delete")) =>
        LET a == The(arg')
        IN  IF a.memory_id \in MemoryIds(mem, a.profile_id)
                THEN /\ The(res').success
                     /\ a.memory_id \notin MemoryIds(mem', a.profile_id)
                     /\ mem'.indexes = mem.indexes
            ELSE ~The(res').success /\ mem' = mem

StoredWithTtl ==
    (arg = NoneV /\ MemoryCall(arg', "store") /\ The(res').success) =>
        LET a == The(arg')
            entered == RecordsOf(mem', a.profile_id, The(The(res').memory_id))
        IN  /\ The(The(res').memory_id) \notin MemoryIds(mem, a.profile_id)
            /\ Cardinality(entered) = 1
            /\ \A r \in entered : r.created_at = now /\ r.expires_at = now + a.ttl_days

\* No call alters the record of a memory that stays recorded.
RecordsKept ==
    \A profile_id \in MemProfiles :
        \A memory_id \in MemoryIds(mem, profile_id) \cap MemoryIds(mem', profile_id) :
            RecordsOf(mem', profile_id, memory_id) = RecordsOf(mem, profile_id, memory_id)

\* No retrieval returns a memory past the expiry it was recorded with.
ExpiredStaysAway ==
    MemoryCall(arg, "retrieve") =>
        \A i \in DOMAIN The(res).results :
            /\ The(res).results[i].memory_id \in MemoryIds(mem, The(arg).profile_id)
            /\ \A r \in RecordsOf(mem, The(arg).profile_id, The(res).results[i].memory_id) : ~(now > r.expires_at)

\* C20: a memory stored with ttl_days = d is never returned once the time is
\* past its creation plus d days (with d = 0 from the next day on), for
\* every profile and context_type: it is recorded with that expiry, the
\* record is not altered, and no retrieval returns a record past its expiry.
C20_ExpiredNeverReturned == []ExpiredStaysAway /\ [][StoredWithTtl /\ RecordsKept]_vars

\* A retrieval for the type and profile of a memory that was stored with
\* ttl_days = 0 the day before, is still recorded and is the nearest to the
\* query.
C20_Witness ==
    /\ MemoryCall(arg, "retrieve")
    /\ \E idx \in DOMAIN Metadata(mem, The(arg).profile_id) :
        LET r == Metadata(mem, The(arg).profile_id)[idx]
            index == Vectors(mem, The(arg).profile_id)
            q == _generate_embedding(The(arg).query)
        IN  /\ r.expires_at = r.created_at
            /\ now > r.created_at
            /\ r.memory_type = The(arg).context_type
            /\ Similar(Distance(index[idx + 1], q), SimilarityThreshold)
            /\ \A other \in 1..Len(index) : Distance(index[idx + 1], q) <= Distance(index[other], q)

\* ---------------------------------------------------------------------
\* ResponseSanitizer.sanitize on its own, called once and called again on
\* its own result.

\* The segments of the responses handed to sanitize: harmless text, text the
\* diagnosis pattern replaces, text the configured scan forbids, text with
\* an emergency keyword and text with a diagnostic keyword.
SanitizerSegments == {"AI_SAFE_TEXT", "AI_DIAGNOSIS_TEXT", "AI_TREATMENT_TEXT", "AI_EMERGENCY_TEXT", "AI_SYMPTOMS_TEXT"}

SanitizerResponses == UNION {[1..n -> SanitizerSegments] : n \in 1..MaxSegments}

\* safety_rules: none, or the rules the sanitizer looks for.
SanitizerRules == {<< >>, <<"must_recommend_doctor">>, <<"no_diagnosis">>, <<"must_recommend_doctor", "no_diagnosis">>}

\* forbidden_patterns of post_llm_safety_scan: no capability agent or no
\* pattern, or the pattern of the configuration.
SanitizerScans == {{}, {"AI_TREATMENT_TEXT"}}

mandatory_disclaimers == {"DISCLAIMER_MEDICAL_ADVICE", "DISCLAIMER_DIAGNOSIS", "DISCLAIMER_EMERGENCY"}

InitSanitizer ==
    /\ NoRun
    /\ cfg = Config(NoneV, NoneV, WellFormedLibrary)
    /\ svc = Services(FALSE, FALSE, FALSE, FALSE)
    /\ db = NoRecords
    /\ consent_cache = EmptyCache(PipelineKeys)
    /\ now = 0
    /\ ops = 0
    /\ arg = NoneV
    /\ res = NoneV
    /\ NoAux

\* sanitize(response, safety_rules) on a fresh response.
Sanitize ==
    /\ \E response \in SanitizerResponses, safety_rules \in SanitizerRules, scan \in SanitizerScans :
        /\ arg' = {[response |-> response, safety_rules |-> safety_rules, scan |-> scan, call |-> 1]}
        /\ res' = {sanitize([post_llm_forbidden |-> scan], response, safety_rules)}
    /\ UNCHANGED <<cfg, svc, run_vars, consent_vars, ops, aux_vars>>

\* sanitize called again on what the first call returned, with the same
\* safety_rules and configuration.
SanitizeAgain ==
    /\ arg # NoneV
    /\ The(arg).call = 1
    /\ arg' = {[The(arg) EXCEPT !.response = The(res), !.call = 2]}
    /\ res' = {sanitize([post_llm_forbidden |-> The(arg).scan], The(res), The(arg).safety_rules)}
    /\ UNCHANGED <<cfg, svc, run_vars, consent_vars, ops, aux_vars>>

NextSanitizer ==
    \/ Sanitize
    \/ SanitizeAgain

SpecSanitizer == InitSanitizer /\ [][NextSanitizer]_vars

\* How often a segment occurs in a text.
Occurrences(segs, seg) == Cardinality({i \in 1..Len(segs) : segs[i] = seg})

\* C21: sanitize is idempotent with respect to disclaimers: the result of a
\* second call on the result of the first holds each mandatory disclaimer at
\* most once, and the second call appends nothing to it.
C21_DisclaimersOnce ==
    (arg # NoneV /\ The(arg).call = 2) =>
        /\ \A d \in mandatory_disclaimers : Occurrences(The(res), d) <= 1
        /\ Len(The(res)) <= Len(The(arg).response)

\* C22: whenever the response handed to sanitize holds emergency language,
\* the result holds the emergency disclaimer, for every safety_rules list
\* and also when the configured scan matches the response.
C22_EmergencyDisclaimerAlways ==
    (arg # NoneV /\ The(arg).call = 1 /\ _contains_emergency_keywords(The(arg).response)) =>
        Occurrences(The(res), "DISCLAIMER_EMERGENCY") >= 1

\* ---------------------------------------------------------------------
\* Claims about single steps of process(), checked on the pipeline.

\* A run has returned, not through the exception handler, and the text its
\* steps worked on (the English pivot) holds an emergency keyword.
EmergencyRunReturned ==
    /\ pc = "returned"
    /\ exc = NoneV
    /\ loc.normalized_input # NoneV
    /\ _is_emergency(The(loc.normalized_input))

automation_messages == {"existing_appointment_system", "existing_prescription_system", "existing_reminder_system", "timeline_service", "nudge_scheduler"}

\* _route_to_automation, lines 512-522.
_route_to_automation(automation) ==
    IF automation \in automation_messages THEN "AUTOMATION_MSG:" \o automation ELSE "PROCESSING_MSG"

\* The capability results handed to _route_capability: forbidden or not,
\* with or without response_template, automation and requires_ai.
RouteInputs ==
    [forbidden : BOOLEAN,
     reason : {NoneV, {"REASON_TEXT"}},
     definition : [response_template : {NoneV, {"TEMPLATE_TEXT"}},
                   automation : {NoneV, {"existing_appointment_system"}, {"nudge_scheduler"}, {"unknown_system"}},
                   requires_ai : {NoneV, {TRUE}, {FALSE}}]]

\* _handle_forbidden_capability, lines 505-510.
_handle_forbidden_capability(capability_result) ==
    Get(capability_result.reason, "NOT_ALLOWED_TEXT") \o " PLEASE_BOOK_TEXT"

\* What _route_capability returns and which calls it makes, lines 467-558:
\* [text, calls] for every answer of the generation service.
_route_capability(capability_result, model_service) ==
    LET handler == Route(capability_result)
        definition == capability_result.definition
    IN  CASE handler = "forbidden" -> {[text |-> _handle_forbidden_capability(capability_result), calls |-> << >>]}
          [] handler = "template" -> {[text |-> The(definition.response_template), calls |-> << >>]}
          [] handler = "automation" -> {[text |-> _route_to_automation(The(definition.automation)), calls |-> << >>]}
          [] handler = "ai" ->
                IF model_service
                    THEN {[text |-> t, calls |-> <<"_build_safe_system_prompt", "generate">>] : t \in Generated \cup {"AI_FAILED_MSG"}}
                ELSE {[text |-> "AI_UNAVAILABLE_MSG", calls |-> << >>]}
          [] OTHER -> {[text |-> "DEFAULT_MSG", calls |-> << >>]}

InitRoute ==
    /\ NoRun
    /\ cfg = Config(NoneV, NoneV, WellFormedLibrary)
    /\ svc \in {Services(FALSE, FALSE, FALSE, m) : m \in BOOLEAN}
    /\ db = NoRecords
    /\ consent_cache = EmptyCache(PipelineKeys)
    /\ now = 0
    /\ ops = 0
    /\ arg = NoneV
    /\ res = NoneV
    /\ NoAux

RouteCapability ==
    /\ \E capability_result \in RouteInputs :
        /\ arg' = {capability_result}
        /\ \E r \in _route_capability(capability_result, svc.model_service) : res' = {r}
    /\ UNCHANGED <<cfg, svc, run_vars, consent_vars, ops, aux_vars>>

NextRoute == RouteCapability

SpecRoute == InitRoute /\ [][NextRoute]_vars

\* C24: routing picks one handler in the order forbidden, response_template,
\* automation, requires_ai, fallback, and the generation service is called
\* in the fourth case only: never for a forbidden capability and never for
\* a definition with a template or an automation, whatever requires_ai says.
C24_RoutingOrder ==
    arg # NoneV =>
        LET a == The(arg)
            d == a.definition
            r == The(res)
            wants_ai == d.requires_ai = {TRUE}
            fourth == ~a.forbidden /\ d.response_template = NoneV /\ d.automation = NoneV /\ wants_ai
        IN  /\ a.forbidden => r.text \in {"REASON_TEXT PLEASE_BOOK_TEXT", "NOT_ALLOWED_TEXT PLEASE_BOOK_TEXT"}
            /\ (~a.forbidden /\ d.response_template # NoneV) => r.text = The(d.response_template)
            /\ (~a.forbidden /\ d.response_template = NoneV /\ d.automation # NoneV)
                    => r.text \in {"AUTOMATION_MSG:existing_appointment_system", "AUTOMATION_MSG:nudge_scheduler", "PROCESSING_MSG"}
            /\ fourth => (IF svc.model_service
                            THEN r.calls = <<"_build_safe_system_prompt", "generate">> /\ r.text \in Generated \cup {"AI_FAILED_MSG"}
                          ELSE r.text = "AI_UNAVAILABLE_MSG")
            /\ (~a.forbidden /\ d.response_template = NoneV /\ d.automation = NoneV /\ ~wants_ai) => r.text = "DEFAULT_MSG"
            /\ ("generate" \in Range(r.calls)) => fourth

\* A definition with a template and requires_ai = true was routed with a
\* generation service at hand.
C24_Witness ==
    /\ arg # NoneV
    /\ ~The(arg).forbidden
    /\ The(arg).definition.response_template # NoneV
    /\ The(arg).definition.requires_ai = {TRUE}
    /\ svc.model_service
    /\ The(res).text = "TEMPLATE_TEXT"

\* ---------------------------------------------------------------------
\* RulesEngine.enforce on its own, for every capability, intent class and
\* user_metadata.
\* user_metadata: none, without a telemedicine consent, with it true or false.
RulesMetadata == {NoneV, {[telemedicine |-> NoneV]}, {[telemedicine |-> {TRUE}]}, {[telemedicine |-> {FALSE}]}}

InitRules ==
    /\ NoRun
    /\ cfg = Config(NoneV, NoneV, WellFormedLibrary)
    /\ svc = Services(FALSE, FALSE, FALSE, FALSE)
    /\ db = NoRecords
    /\ consent_cache = EmptyCache(PipelineKeys)
    /\ now = 0
    /\ ops = 0
    /\ arg = NoneV
    /\ res = NoneV
    /\ NoAux

EnforceRules ==
    /\ \E capability \in CapNames, intent_class \in IntentClasses, user_metadata \in RulesMetadata :
        /\ arg' = {[capability |-> capability, intent_class |-> intent_class, user_metadata |-> user_metadata]}
        /\ res' = {rules_enforce(capability, intent_class, user_metadata)}
    /\ UNCHANGED <<cfg, svc, run_vars, consent_vars, ops, aux_vars>>

NextRules == EnforceRules

SpecRules == InitRules /\ [][NextRules]_vars

\* The request falls under a block rule: its class is CLASS_C or CLASS_D.
BlockRuleHit(a) == a.intent_class \in {"CLASS_C", "CLASS_D"}

\* The request falls under the consent rule and the consent is not given.
ConsentUnmet(a) ==
    /\ a.capability = "APPOINTMENT_BOOKING"
    /\ \/ a.user_metadata = NoneV
       \/ The(a.user_metadata).telemedicine # {TRUE}

\* C25: in the verdict of RulesEngine.enforce blocking violations take
\* precedence over consent-required actions: with both, allowed is false and
\* the message is that of the first violated rule; with an unmet consent
\* rule only, violations is empty, required_actions is not and allowed is
\* false; the log rule appears in neither list; allowed is true exactly when
\* there are no violations and no required actions.
C25_RulesVerdict ==
    arg # NoneV =>
        LET a == The(arg)
            r == The(res)
        IN  /\ r.allowed <=> (r.violations = << >> /\ r.required_actions = << >>)
            /\ r.allowed <=> (~BlockRuleHit(a) /\ ~ConsentUnmet(a))
            /\ BlockRuleHit(a) =>
                    /\ r.violations # << >>
                    /\ r.violations[1] = "no_diagnosis_without_license"
                    /\ r.message = "CANNOT_DIAGNOSE_MSG"
                    /\ ConsentUnmet(a) <=> (r.required_actions # << >>)
            /\ (~BlockRuleHit(a) /\ ConsentUnmet(a)) =>
                    /\ r.violations = << >>
                    /\ r.required_actions = <<"telemedicine_consent_required">>
                    /\ r.message = "CONSENT_NEEDED_MSG"
            /\ "data_minimization" \notin Range(r.violations) \cup Range(r.required_actions)

\* A CLASS_C request for an appointment without consent was refused for
\* the violation, the consent still listed as required.
C25_Witness ==
    /\ arg # NoneV
    /\ The(arg).capability = "APPOINTMENT_BOOKING"
    /\ The(arg).intent_class = "CLASS_C"
    /\ The(arg).user_metadata = NoneV
    /\ The(res).violations = <<"no_diagnosis_without_license", "no_prescription_without_license">>
    /\ The(res).required_actions # << >>
    /\ ~The(res).allowed

\* Step 14 of the run is done: sanitized_response is what apply_tone gets.
Sanitized == loc.sanitized_response # NoneV

C26_WitnessDiscarded ==
    /\ Sanitized
    /\ The(loc.capability_result).intent_class = "CLASS_B_PLUS"
    /\ The(loc.sanitized_response).segs = <<"POST_LLM_REFUSAL", "BOUNDARY_STATEMENT">>

\* ---------------------------------------------------------------------
\* process() with the call of model_service.generate in flight.  Step 12 is
\* split at the await of _generate_ai_response (lines 548-552): the call is
\* made, and the run waits until the service answers or the caller cancels
\* the task.
InitGeneration ==
    /\ Init
    /\ cfg = Config(NoneV, NoneV, WellFormedLibrary)
    /\ svc = Services(TRUE, TRUE, TRUE, TRUE)
    /\ db = AllGranted

\* _route_capability reaches _generate_ai_response with a service given.
Generates ==
    /\ pc = "route"
    /\ Route(The(loc.capability_result)) = "ai"
    /\ svc.model_service

\* Step 12 through a handler that does not wait for the service.
RouteDirect ==
    /\ pc = "route"
    /\ ~Generates
    /\ CapabilityRoute

\* Lines 536-552: the prompt is built and generate is awaited.  No timeout
\* is set on the await, by asyncio.wait_for or otherwise.
GenerationStart ==
    /\ Generates
    /\ calls' = calls \o <<"route", "generate">>
    /\ pc' = "generating"
    /\ UNCHANGED <<cfg, svc, inp, loc, audit_log, saved, resp, exc, runs, consent_vars, unit_vars>>

\* The service answers with a text, or raises and lines 556-558 put the
\* fixed apology in its place; step 12 is recorded (lines 312-316).
GenerationAnswer ==
    /\ pc = "generating"
    /\ \E text \in Generated \cup {"AI_FAILED_MSG"} : loc' = [loc EXCEPT !.response_text = {Txt(<<text>>, "en")}]
    /\ audit_log' = AddStep(audit_log, "capability_routing")
    /\ pc' = "sanitize"
    /\ UNCHANGED <<cfg, svc, inp, saved, resp, exc, calls, runs, consent_vars, unit_vars>>

\* The caller cancels the task: asyncio raises CancelledError at the await.
\* It derives from BaseException, so neither `except Exception` of
\* _generate_ai_response (line 556) nor that of process (line 391) handles
\* it, and process has no finally clause: the run ends there.
CancelRun ==
    /\ pc = "generating"
    /\ exc' = {"CancelledError"}
    /\ pc' = "cancelled"
    /\ UNCHANGED <<cfg, svc, inp, loc, audit_log, saved, resp, calls, runs, consent_vars, unit_vars>>

\* The steps the event loop runs for process() once it is called.
ProcessSteps ==
    \/ RateLimitCheck
    \/ LanguageDetect
    \/ Normalize
    \/ CapabilityIdentify
    \/ SafetyEnforce
    \/ RulesEnforce
    \/ ConsentVerify
    \/ RAGRetrieve
    \/ EmotionDetect
    \/ ToneMap
    \/ RouteDirect
    \/ GenerationStart
    \/ ResponseSanitize
    \/ ToneApply
    \/ Localize
    \/ AuditPersist
    \/ Return

NextGeneration ==
    \/ Start
    \/ ProcessSteps
    \/ GenerationAnswer

\* The event loop keeps running a coroutine that can take a step; whether
\* the service ever answers is not up to the pipeline.
FairGeneration == InitGeneration /\ [][NextGeneration]_vars /\ WF_vars(ProcessSteps)

NextCancellation ==
    \/ NextGeneration
    \/ CancelRun

SpecCancellation == InitGeneration /\ [][NextCancellation]_vars

\* C27: a run that waits for the generation service eventually returns
\* with its audit log persisted, whether or not the service ever answers.
C27_GenerationReturns == (pc = "generating") ~> (pc = "returned" /\ saved # << >>)

\* C28: a run cancelled while the generation call was in flight has its
\* audit log written.
C28_CancelledRunLogged == pc = "cancelled" => saved # << >>

\* ---------------------------------------------------------------------
\* process() with a translation service whose calls may raise, each raise
\* told apart from an answer.
InitTranslation ==
    /\ Init
    /\ cfg = Config(NoneV, NoneV, WellFormedLibrary)
    /\ svc = Services(TRUE, TRUE, TRUE, TRUE)
    /\ db = AllGranted

LanguageDetectOrRaise == LanguageDetectStep(TRUE)

NormalizeOrRaise == NormalizeStep(TRUE)

LocalizeOrRaise == LocalizeStep(TRUE)

NextTranslation ==
    \/ Start
    \/ RateLimitCheck
    \/ LanguageDetectOrRaise
    \/ NormalizeOrRaise
    \/ CapabilityIdentify
    \/ SafetyEnforce
    \/ RulesEnforce
    \/ ConsentVerify
    \/ RAGRetrieve
    \/ EmotionDetect
    \/ ToneMap
    \/ CapabilityRoute
    \/ ResponseSanitize
    \/ ToneApply
    \/ LocalizeOrRaise
    \/ AuditPersist
    \/ Return

SpecTranslation == InitTranslation /\ [][NextTranslation]_vars

\* The call `call` of the translation service raised in this run.
FailedAt(call) ==
    \E i \in 1..(Len(calls) - 1) : calls[i] = call /\ calls[i + 1] = "translation_error"

\* C29: a failure of the translation service never aborts a run.  When
\* detect_language raises the run goes on with 'en'; when translate raises
\* in normalization or in localization the untranslated text is used; and
\* no run takes the exception path from a call of the translation service.
C29_TranslationFailureRecovered ==
    /\ exc # NoneV => Last(calls) \notin {"detect_language", "translate_to_en", "translate_from_en", "translation_error"}
    /\ (FailedAt("detect_language") /\ pc # "returned") => loc.detected_language = {"en"}
    /\ FailedAt("translate_to_en") => loc.normalized_input = {inp.user_input}
    /\ (FailedAt("translate_from_en") /\ loc.localized_response # NoneV) => loc.localized_response = loc.emotional_response
    /\ (FailedAt("translate_from_en") /\ pc = "returned" /\ exc = NoneV /\ loc.localized_response # NoneV) =>
            /\ The(resp).response = The(loc.emotional_response)
            /\ The(resp).error = NoneV
            /\ saved # << >>

\* A run in Hindi returned its answer untranslated after translate raised
\* in normalization and in localization.
C29_Witness ==
    /\ pc = "returned"
    /\ exc = NoneV
    /\ FailedAt("translate_to_en")
    /\ FailedAt("translate_from_en")
    /\ The(resp).response = The(loc.emotional_response)
    /\ The(resp).capability # "ERROR"

\* A run returned its answer after detect_language raised.
C29_WitnessDetection ==
    /\ pc = "returned"
    /\ exc = NoneV
    /\ FailedAt("detect_language")
    /\ The(resp).language = "en"
    /\ loc.localized_response # NoneV

\* C30: once _save_audit_log has been called for a run, the audit log of the
\* run is what was handed to it: no field, the steps list included, differs
\* afterwards.
C30_SavedLogNeverMutated == saved # << >> => audit_log = Last(saved)

\* The capabilities of the terminal responses of the gates.
GateCapabilities == {"RATE_LIMITED", "SAFETY_BLOCKED", "RULES_BLOCKED", "CONSENT_REQUIRED"}

\* The blocked_reason a run must end with, given the verdicts of the gates
\* it consulted; the rate limiter's verdict is not kept by the run and shows
\* as a run that ended right after check_limit without an exception.
Verdict ==
    CASE loc.safety_check # NoneV /\ ~The(loc.safety_check).safe -> {"SAFETY_VIOLATION"}
      [] loc.rules_check # NoneV /\ ~The(loc.rules_check).allowed -> {"LEGAL_RULE_VIOLATION"}
      [] loc.consent_check # NoneV /\ ~The(loc.consent_check).granted -> {"CONSENT_REQUIRED"}
      [] calls = <<"check_limit">> /\ exc = NoneV /\ pc = "returned" -> {"RATE_LIMIT_EXCEEDED"}
      [] OTHER -> NoneV

\* C32: a gate that refuses ends the run with the response of its own type
\* and its own blocked_reason (the safety gate also with the refusal code)
\* and with no exception; the saved audit log has a blocked_reason exactly
\* when the run ended at a gate, and it names that gate.
C32_TypedGateFailure ==
    /\ pc # "propagated"
    /\ Verdict # NoneV => pc = "returned"
    /\ pc = "returned" =>
        LET log == Last(saved)
        IN  /\ log.blocked_reason = Verdict
            /\ (log.blocked_reason # NoneV) <=> (The(resp).capability \in GateCapabilities)
            /\ log.blocked_reason # NoneV =>
                /\ The(resp).capability = GateOf(The(log.blocked_reason)).capability
                /\ Last(log.steps).name = GateOf(The(log.blocked_reason)).step
                /\ exc = NoneV
                /\ The(resp).error = NoneV
            /\ log.refusal_code # NoneV <=> log.blocked_reason = {"SAFETY_VIOLATION"}
            /\ log.blocked_reason = {"SAFETY_VIOLATION"} => log.refusal_code = {The(loc.safety_check).refusal_code}

\* A run refused by the rules engine, after the safety gate passed.
C32_Witness ==
    /\ pc = "returned"
    /\ Last(saved).blocked_reason = {"LEGAL_RULE_VIOLATION"}
    /\ The(resp).capability = "RULES_BLOCKED"
    /\ The(loc.safety_check).safe

\* A run refused by the safety gate with a refusal code in its log.
C32_WitnessSafety ==
    /\ pc = "returned"
    /\ Last(saved).blocked_reason = {"SAFETY_VIOLATION"}
    /\ Last(saved).refusal_code # NoneV
    /\ The(resp).capability = "SAFETY_BLOCKED"

\* C36: the rules engine is consulted only for requests outside CLASS_C and
\* CLASS_D, which the safety gate has refused before; so its verdict names
\* no violation, and a run it refuses is refused for a consent it requires:
\* an APPOINTMENT_BOOKING request without the telemedicine flag.
C36_RulesBlockOnlyForConsent ==
    /\ loc.rules_check # NoneV =>
        LET rules_check == The(loc.rules_check)
            capability_result == The(loc.capability_result)
        IN  /\ capability_result.intent_class \notin {"CLASS_C", "CLASS_D"}
            /\ rules_check.violations = << >>
            /\ ~rules_check.allowed =>
                /\ rules_check.required_actions # << >>
                /\ capability_result.capability = "APPOINTMENT_BOOKING"
                /\ ~_has_consent(inp.user_metadata, "telemedicine_consent_required")
    /\ (resp # NoneV /\ The(resp).capability = "RULES_BLOCKED") =>
        /\ loc.rules_check # NoneV
        /\ ~The(loc.rules_check).allowed

\* A request for an appointment without the telemedicine flag, refused by
\* the rules gate.
C36_Witness ==
    /\ pc = "returned"
    /\ The(resp).capability = "RULES_BLOCKED"
    /\ The(loc.rules_check).required_actions = <<"telemedicine_consent_required">>
    /\ The(loc.rules_check).violations = << >>
    /\ inp.user_metadata = NoneV

\* C40: the response of a run that has returned carries the correlation_id
\* of the run's audit log, which no other run has, and as audit_log_id what
\* the run's call of _save_audit_log returned.
C40_ResponseCarriesIds ==
    pc = "returned" =>
        /\ audit_log.correlation_id = runs
        /\ The(resp).correlation_id = {audit_log.correlation_id}
        /\ The(resp).audit_log_id = _save_audit_log(svc.db, runs, Len(saved))

(***************************************************************************)
(* RateLimiter (astra_rate_limiter/rate_limiter.py).  user_limits is held  *)
(* in mem: a function from <<user_id, profile_id, window_key>> to the      *)
(* RateLimitWindow created for it.  The clock counts seconds.  No method   *)
(* of the class suspends (each await is of a coroutine of the class that   *)
(* awaits nothing else), so the event loop runs a check_limit call from    *)
(* start to end: concurrent calls interleave as whole calls.               *)
(***************************************************************************)
\* _load_global_limits, lines 108-115.
global_limits ==
    [text_ai_chat |-> [limit |-> 10, window |-> 60],
     voice_chat |-> [limit |-> 3, window |-> 60],
     translation_only |-> [limit |-> 20, window |-> 60],
     document_analysis |-> [limit |-> 5, window |-> 3600]]

\* _load_capability_limits, lines 117-131, with the default of line 247.
capability_limits(capability) ==
    CASE capability = "GENERAL_WELLNESS_CHAT" -> [limit |-> 10, window |-> 60]
      [] capability = "SYMPTOM_DOCUMENTATION" -> [limit |-> 5, window |-> 3600]
      [] capability = "MEDICATION_REMINDER_CHAT" -> [limit |-> 20, window |-> 3600]
      [] capability = "DOCUMENT_INTERPRETATION" -> [limit |-> 3, window |-> 3600]
      [] capability = "APPOINTMENT_BOOKING" -> [limit |-> 10, window |-> 3600]
      [] capability = "PRESCRIPTION_VIEW" -> [limit |-> 20, window |-> 3600]
      [] capability = "REMINDER_MANAGEMENT" -> [limit |-> 15, window |-> 3600]
      [] capability = "HEALTH_TIMELINE" -> [limit |-> 10, window |-> 3600]
      [] capability = "EMERGENCY_REDIRECT" -> [limit |-> 999999, window |-> 1]
      [] OTHER -> [limit |-> 10, window |-> 60]

\* RateLimitWindow.__init__, lines 25-35.
RateLimitWindow(limit, window_seconds) == [limit |-> limit, window_seconds |-> window_seconds, requests |-> << >>]

\* The requests a window keeps at time t, line 43.
Recent(window, t) == SelectSeq(window.requests, LAMBDA ts : ts > t - window.window_seconds)

\* The test of line 46 with the limit itself allowed.
is_allowed_AtLimit(window, t) ==
    IF Len(Recent(window, t)) <= window.limit
        THEN [allowed |-> TRUE, window |-> [window EXCEPT !.requests = Append(Recent(window, t), t)]]
    ELSE [allowed |-> FALSE, window |-> [window EXCEPT !.requests = Recent(window, t)]]

\* RateLimitWindow.is_allowed at time t, lines 37-50: the verdict and the
\* window after the call.
is_allowed(window, t) ==
    IF Len(Recent(window, t)) < window.limit
        THEN [allowed |-> TRUE, window |-> [window EXCEPT !.requests = Append(Recent(window, t), t)]]
    ELSE [allowed |-> FALSE, window |-> [window EXCEPT !.requests = Recent(window, t)]]

\* Lines 211-221 and 250-260: the window of a key is created when it is
\* missing, and asked.
CheckWindow(user_limits, key, limit_config, t) ==
    LET window == IF key \in DOMAIN user_limits THEN user_limits[key] ELSE RateLimitWindow(limit_config.limit, limit_config.window)
        asked == is_allowed(window, t)
    IN  [allowed |-> asked.allowed,
         user_limits |-> [k \in DOMAIN user_limits \cup {key} |-> IF k = key THEN asked.window ELSE user_limits[k]]]

GlobalKey(is_voice) == IF is_voice THEN "voice_chat" ELSE "text_ai_chat"

\* _check_global_limit, lines 196-236.
_check_global_limit(user_limits, user_id, profile_id, is_voice, t) ==
    LET limit_key == GlobalKey(is_voice)
        checked == CheckWindow(user_limits, <<user_id, profile_id, "global_" \o limit_key>>, global_limits[limit_key], t)
    IN  [allowed |-> checked.allowed,
         reason |-> IF checked.allowed THEN "global_limit_ok" ELSE "global_" \o limit_key \o "_exceeded",
         user_limits |-> checked.user_limits]

\* _check_capability_limit, lines 238-275.
_check_capability_limit(user_limits, user_id, profile_id, capability, t) ==
    LET checked == CheckWindow(user_limits, <<user_id, profile_id, "capability_" \o capability>>, capability_limits(capability), t)
    IN  [allowed |-> checked.allowed,
         reason |-> IF checked.allowed THEN "capability_limit_ok" ELSE "capability_" \o capability \o "_exceeded",
         user_limits |-> checked.user_limits]

\* check_limit, lines 133-194; capability is an option.
check_limit(user_limits, user_id, profile_id, capability, is_voice, t) ==
    IF capability = {"EMERGENCY_REDIRECT"}
        THEN [allowed |-> TRUE, reason |-> "emergency", user_limits |-> user_limits]
    ELSE LET global_check == _check_global_limit(user_limits, user_id, profile_id, is_voice, t)
         IN  IF ~global_check.allowed THEN global_check
             ELSE IF capability # NoneV
                 THEN LET capability_check == _check_capability_limit(global_check.user_limits, user_id, profile_id, The(capability), t)
                      IN  IF ~capability_check.allowed THEN capability_check
                          ELSE [allowed |-> TRUE, reason |-> "allowed", user_limits |-> capability_check.user_limits]
             ELSE [allowed |-> TRUE, reason |-> "allowed", user_limits |-> global_check.user_limits]

\* ---------------------------------------------------------------------
\* One RateLimiter under check_limit calls of several clients, as whole
\* calls in any order, and the passing of time.  trail keeps, per window,
\* the times of the requests that check_limit allowed; tasks keeps
\* user_limits as it was before the call that is being answered.
LimiterRequest(user_id, profile_id, capability, is_voice) ==
    [user_id |-> user_id, profile_id |-> profile_id, capability |-> capability, is_voice |-> is_voice]

\* The calls the clients make: voice requests of three clients, and for the
\* first client also a request with a capability of its own limit, by text
\* and by voice, and an emergency request.
LimiterRequests ==
    {LimiterRequest("u1", "p1", NoneV, TRUE),
     LimiterRequest("u1", "p2", NoneV, TRUE),
     LimiterRequest("u2", "p1", NoneV, TRUE),
     LimiterRequest("u1", "p1", {"DOCUMENT_INTERPRETATION"}, FALSE),
     LimiterRequest("u1", "p1", {"DOCUMENT_INTERPRETATION"}, TRUE),
     LimiterRequest("u1", "p1", {"EMERGENCY_REDIRECT"}, TRUE)}

\* The clock advances by half the window of the global limits.
Pace == global_limits.voice_chat.window \div 2

\* The windows a check_limit call consults.
WindowsOf(user_id, profile_id, capability, is_voice) ==
    IF capability = {"EMERGENCY_REDIRECT"} THEN {}
    ELSE {<<user_id, profile_id, "global_" \o GlobalKey(is_voice)>>}
            \cup {<<user_id, profile_id, "capability_" \o c>> : c \in capability}

InitLimiter ==
    /\ NoRun
    /\ cfg = Config(NoneV, NoneV, WellFormedLibrary)
    /\ svc = Services(FALSE, TRUE, FALSE, FALSE)
    /\ db = NoRecords
    /\ consent_cache = EmptyCache(PipelineKeys)
    /\ now = 0
    /\ ops = 0
    /\ arg = NoneV
    /\ res = NoneV
    /\ trail = << >>
    /\ mem = << >>
    /\ tasks = << >>

CheckLimit ==
    /\ arg = NoneV
    /\ ops < MaxChecks
    /\ \E request \in LimiterRequests :
        LET checked == check_limit(mem, request.user_id, request.profile_id, request.capability, request.is_voice, now)
            consulted == WindowsOf(request.user_id, request.profile_id, request.capability, request.is_voice)
        IN  /\ mem' = checked.user_limits
            /\ arg' = {request}
            /\ res' = {[allowed |-> checked.allowed, reason |-> checked.reason]}
            /\ tasks' = mem
            /\ trail' = IF checked.allowed
                            THEN [k \in DOMAIN trail \cup consulted |-> IF k \in consulted THEN (IF k \in DOMAIN trail THEN Append(trail[k], now) ELSE <<now>>) ELSE trail[k]]
                        ELSE trail
    /\ ops' = ops + 1
    /\ UNCHANGED <<cfg, svc, run_vars, consent_cache, db, now>>

\* The caller has the verdict.
RespondLimiter ==
    /\ arg # NoneV
    /\ arg' = NoneV
    /\ res' = NoneV
    /\ tasks' = << >>
    /\ UNCHANGED <<cfg, svc, run_vars, consent_vars, ops, trail, mem>>

TickLimiter ==
    /\ arg = NoneV
    /\ now < MaxTicks * Pace
    /\ now' = now + Pace
    /\ UNCHANGED <<cfg, svc, run_vars, consent_cache, db, unit_vars>>

NextLimiter ==
    \/ CheckLimit
    \/ RespondLimiter
    \/ TickLimiter

SpecLimiter == InitLimiter /\ [][NextLimiter]_vars

\* The times in trail[k] that lie in the interval of the window's length
\* that ends at t.
AllowedWithin(k, seconds, t) == Cardinality({i \in 1..Len(trail[k]) : trail[k][i] > t - seconds /\ trail[k][i] <= t})

\* In no interval of the window's length were more requests allowed than
\* the limit of the window.
WithinLimit ==
    \A k \in DOMAIN trail :
        /\ k \in DOMAIN mem
        /\ \A i \in 1..Len(trail[k]) : AllowedWithin(k, mem[k].window_seconds, trail[k][i]) <= mem[k].limit

\* The verdict the window k gave in the call being answered: a window that
\* was consulted refused exactly when the call names it as exceeded.
Passed(k) == The(res).reason # k[3] \o "_exceeded"

\* The windows the call being answered reached: the capability window is
\* asked only after the global window passed.
Reached ==
    LET a == The(arg)
        consulted == WindowsOf(a.user_id, a.profile_id, a.capability, a.is_voice)
        global == <<a.user_id, a.profile_id, "global_" \o GlobalKey(a.is_voice)>>
    IN  IF consulted # {} /\ ~Passed(global) THEN {global} ELSE consulted

\* The window k as the call found it: a window like w without requests when
\* the call created it.
Before(k, w) == IF k \in DOMAIN tasks THEN tasks[k] ELSE RateLimitWindow(w.limit, w.window_seconds)

\* C31: in every window no more requests are allowed within any interval
\* of window_seconds than its limit, whatever the order of the calls; a
\* window asked by a call gains the time of the call exactly when it lets
\* the request pass and otherwise only loses the requests that left the
\* interval; and a call changes no window of another user or profile.
C31_WindowsNeverExceeded ==
    /\ WithinLimit
    /\ \A k \in DOMAIN mem : Len(mem[k].requests) <= mem[k].limit
    /\ arg # NoneV =>
        /\ The(res).allowed <=> (\A k \in Reached : Passed(k))
        /\ \A k \in Reached :
            /\ k \in DOMAIN mem
            /\ mem[k].requests = Recent(Before(k, mem[k]), now) \o (IF Passed(k) THEN <<now>> ELSE << >>)
        /\ \A k \in DOMAIN mem \ Reached : k \in DOMAIN tasks /\ mem[k] = tasks[k]
        /\ DOMAIN tasks \subseteq DOMAIN mem

\* The voice window of one client refused a request while holding three,
\* and the refused call left every window as it found it.
C31_Witness ==
    /\ arg # NoneV
    /\ The(arg) = LimiterRequest("u1", "p1", NoneV, TRUE)
    /\ ~The(res).allowed
    /\ Len(mem[<<"u1", "p1", "global_voice_chat">>].requests) = 3
    /\ mem = tasks

\* A window let a request pass after the requests that filled it had left
\* the interval.
C31_WitnessPruned ==
    /\ arg # NoneV
    /\ The(res).allowed
    /\ \E k \in Reached : k \in DOMAIN tasks /\ Len(tasks[k].requests) = tasks[k].limit /\ mem[k].requests = <<now>>

\* ---------------------------------------------------------------------
\* process() on a real RateLimiter: the runs of one profile, by voice or
\* by text, share the limiter's windows.  mem holds user_limits, arg the
\* is_voice flag of the run and tasks user_limits as the run found it.  The
\* runs fall within one window: the clock stands still.
GateInputs == [user_input : {{"chest pain"}, {"explain dosha"}, {"log symptom"}}, input_language : {{"en"}}, user_metadata : {NoneV}]

\* _check_rate_limit with a verdict that says nothing but "refused".
_check_rate_limit_FailClosed(configured, outcome) ==
    IF configured /\ outcome # NoneV THEN The(outcome) ELSE [allowed |-> FALSE, reason |-> "unavailable", user_limits |-> mem]

\* _check_rate_limit, lines 409-424: outcome is what check_limit returned,
\* or nothing when it raised.
_check_rate_limit(configured, outcome) ==
    IF ~configured THEN [allowed |-> TRUE, reason |-> "no_limiter", user_limits |-> mem]
    ELSE IF outcome = NoneV THEN [allowed |-> TRUE, reason |-> "check_failed", user_limits |-> mem]
    ELSE The(outcome)

InitGate ==
    /\ NoRun
    /\ NoAux
    /\ cfg = Config(NoneV, NoneV, WellFormedLibrary)
    /\ svc \in {Services(TRUE, TRUE, FALSE, TRUE), Services(TRUE, FALSE, FALSE, TRUE)}
    /\ db = AllGranted
    /\ consent_cache = EmptyCache(PipelineKeys)
    /\ now = 0
    /\ ops = 0
    /\ arg = NoneV
    /\ res = NoneV

\* process() is called with is_voice: lines 122-145.
StartOnLimiter ==
    /\ pc = "idle"
    /\ runs < MaxChecks
    /\ \E i \in GateInputs : inp' = i
    /\ \E is_voice \in BOOLEAN : arg' = {is_voice}
    /\ runs' = runs + 1
    /\ loc' = NoLocals
    /\ audit_log' = NewAuditLog(runs + 1)
    /\ saved' = << >>
    /\ resp' = NoneV
    /\ exc' = NoneV
    /\ calls' = << >>
    /\ res' = NoneV
    /\ pc' = "rate_limit"
    /\ UNCHANGED <<cfg, svc, consent_vars, ops, aux_vars>>

\* Step 2 on the limiter, lines 147-157: check_limit is called without a
\* capability, which is identified only in step 5.  res keeps whether the
\* limiter raised.
RateLimitOnLimiter ==
    /\ pc = "rate_limit"
    /\ \E outcome \in (IF svc.rate_limiter THEN {{check_limit(mem, PipelineUser, PipelineProfile, NoneV, The(arg), now)}, NoneV} ELSE {NoneV}) :
        LET rate_check == _check_rate_limit(svc.rate_limiter, outcome)
        IN  /\ calls' = IF svc.rate_limiter THEN Append(calls, "check_limit") ELSE calls
            /\ res' = {[raised |-> svc.rate_limiter /\ outcome = NoneV]}
            /\ tasks' = mem
            /\ mem' = rate_check.user_limits
            /\ IF rate_check.allowed
                THEN /\ audit_log' = AddStep(audit_log, "rate_limit_check")
                     /\ pc' = "language"
                     /\ UNCHANGED <<saved, resp>>
                ELSE GateReturn([AddStep(audit_log, "rate_limit_check") EXCEPT !.blocked_reason = {"RATE_LIMIT_EXCEEDED"}], Txt(<<"RATE_LIMIT_MSG">>, "en"), "en", "RATE_LIMITED", NoneV)
    /\ UNCHANGED <<cfg, svc, inp, loc, exc, runs, consent_vars, ops, arg, trail>>

NextGate ==
    \/ StartOnLimiter
    \/ RateLimitOnLimiter
    \/ LanguageDetect
    \/ Normalize
    \/ CapabilityIdentify
    \/ SafetyEnforce
    \/ RulesEnforce
    \/ ConsentVerify
    \/ RAGRetrieve
    \/ EmotionDetect
    \/ ToneMap
    \/ CapabilityRoute
    \/ ResponseSanitize
    \/ ToneApply
    \/ Localize
    \/ AuditPersist
    \/ Return

SpecGate == InitGate /\ [][NextGate]_vars

\* C33: a run whose text holds an emergency keyword is not answered with
\* RATE_LIMITED, and its rate-limit check leaves every window as it found
\* it.
C33_EmergencyNeverLimited ==
    (pc \notin {"idle", "rate_limit"} /\ _is_emergency(inp.user_input)) =>
        /\ audit_log.blocked_reason # {"RATE_LIMIT_EXCEEDED"}
        /\ mem = tasks

\* The rate limiter of the run failed: there is none, or check_limit raised.
LimiterFailed == ~svc.rate_limiter \/ The(res).raised

\* C35: when there is no rate limiter or check_limit raises, the rate-limit
\* step is recorded as passed and the run goes on to language detection and
\* the later steps: it is not answered with RATE_LIMITED, an ERROR response
\* comes only from a later step, and no window of the limiter changes.
C35_RateGateFailsOpen ==
    (pc \notin {"idle", "rate_limit"} /\ LimiterFailed) =>
        /\ audit_log.steps[2].name = "rate_limit_check"
        /\ audit_log.blocked_reason # {"RATE_LIMIT_EXCEEDED"}
        /\ Len(audit_log.steps) = 2 => pc = "language"
        /\ resp # NoneV => The(resp).capability # "RATE_LIMITED"
        /\ exc # NoneV => Last(calls) # "check_limit"
        /\ mem = tasks

\* check_limit raised for a profile whose voice window was full, and the
\* run returned the answer of its capability.
C35_Witness ==
    /\ pc = "returned"
    /\ svc.rate_limiter
    /\ The(res).raised
    /\ The(arg)
    /\ <<PipelineUser, PipelineProfile, "global_voice_chat">> \in DOMAIN mem
    /\ Len(mem[<<PipelineUser, PipelineProfile, "global_voice_chat">>].requests) = global_limits.voice_chat.limit
    /\ exc = NoneV
    /\ The(resp).capability \notin GateCapabilities

\* A run without a rate limiter that passed every gate.
C35_WitnessNoLimiter ==
    /\ pc = "returned"
    /\ ~svc.rate_limiter
    /\ exc = NoneV
    /\ The(resp).capability \notin GateCapabilities

\* ---------------------------------------------------------------------
\* The two ConsentManagers of the service (main_enhanced.py 196-227): the
\* one handed to the routes, which serves /consent/grant and
\* /consent/revoke, and the one AstraPipeline.__init__ builds for itself
\* (pipeline.py 75).  They share the store; each has its own cache: mem is
\* the cache of the routes' manager, consent_cache that of the pipeline's.
RouteKeys == {k \in ConsentKeys : k[1] = PipelineUser /\ k[2] = PipelineProfile}

InitRevoke ==
    /\ NoRun
    /\ cfg = Config(NoneV, NoneV, WellFormedLibrary)
    /\ svc = Services(TRUE, TRUE, FALSE, TRUE)
    /\ db = [k \in ConsentKeys |-> NoneV]
    /\ consent_cache = EmptyCache(ConsentKeys)
    /\ mem = EmptyCache(ConsentKeys)
    /\ now = 0
    /\ ops = 0
    /\ arg = NoneV
    /\ res = NoneV
    /\ trail = [k \in ConsentKeys |-> "none"]
    /\ tasks = << >>

\* POST /astra/consent/grant, routes.py 258-299: grant_consent on the
\* routes' manager.
RouteGrant ==
    /\ ops < MaxOps
    /\ \E key \in RouteKeys, duration_days \in 0..MaxDuration :
        LET written == _save_consent_to_db(db, svc.db, key, GrantedRecord(now, duration_days))
        IN  /\ db' = written.store
            /\ mem' = IF written.ok THEN CacheDel(mem, cache_key(key[1], key[2], key[3])) ELSE mem
            /\ trail' = IF written.ok THEN AfterGrant(trail, key) ELSE trail
    /\ ops' = ops + 1
    /\ arg' = NoneV
    /\ res' = NoneV
    /\ UNCHANGED <<cfg, svc, run_vars, consent_cache, tasks, now>>

\* POST /astra/consent/revoke, routes.py 303-342: revoke_consent on the
\* routes' manager.
RouteRevoke ==
    /\ ops < MaxOps
    /\ \E key \in RouteKeys :
        LET revoked == _revoke_consent_in_db(db, svc.db, key, now)
        IN  /\ db' = revoked.store
            /\ mem' = IF revoked.ok THEN CacheDel(mem, cache_key(key[1], key[2], key[3])) ELSE mem
            /\ trail' = IF revoked.ok THEN AfterRevoke(trail, key) ELSE trail
    /\ ops' = ops + 1
    /\ arg' = NoneV
    /\ res' = NoneV
    /\ UNCHANGED <<cfg, svc, run_vars, consent_cache, tasks, now>>

\* Step 8 of process(), pipeline.py 245-252: verify_consent on the
\* pipeline's manager for the capability of the run.
PipelineVerify == VerifyFor({PipelineUser}, {PipelineProfile}, [capability : ConsentCapabilities, purpose : {NoneV}])

NextRevoke ==
    \/ RouteGrant
    \/ RouteRevoke
    \/ PipelineVerify
    \/ Tick

SpecRevoke == InitRevoke /\ [][NextRevoke]_vars

\* C34: once /consent/revoke has revoked the consent of a key, every
\* verification the pipeline makes for that key answers granted = false,
\* also when the pipeline had verified and cached the consent before.
C34_RevocationImmediate ==
    \A key \in RouteKeys :
        (trail[key] \in Revoked /\ VerifiedKey(key)) => ~The(res).granted

\* ---------------------------------------------------------------------
\* process() over a consent store that is absent, or whose lookups may
\* fail during a verification; the consents in the store last for the day
\* they were granted on, and days pass between the runs.
ShortGrants == [k \in PipelineKeys |-> {GrantedRecord(0, 0)}]

InitOutage ==
    /\ NoRun
    /\ NoAux
    /\ cfg = Config(NoneV, NoneV, WellFormedLibrary)
    /\ svc \in {Services(TRUE, FALSE, FALSE, TRUE), Services(FALSE, FALSE, FALSE, TRUE)}
    /\ db = ShortGrants
    /\ consent_cache = EmptyCache(PipelineKeys)
    /\ now = 0
    /\ ops = 0
    /\ arg = NoneV
    /\ res = NoneV

ConsentVerifyOrFail == ConsentVerifyStep(TRUE)

NextOutage ==
    \/ StartOnLimiter
    \/ RateLimitCheck
    \/ LanguageDetect
    \/ Normalize
    \/ CapabilityIdentify
    \/ SafetyEnforce
    \/ RulesEnforce
    \/ ConsentVerifyOrFail
    \/ RAGRetrieve
    \/ EmotionDetect
    \/ ToneMap
    \/ CapabilityRoute
    \/ ResponseSanitize
    \/ ToneApply
    \/ Localize
    \/ AuditPersist
    \/ Return
    \/ DayPasses

SpecOutage == InitOutage /\ [][NextOutage]_vars

\* The verification of the run found no store, or its lookups failed.
StoreUnavailable == ~svc.db \/ "consent_lookup_error" \in Range(calls)

\* The cache holds a granted result for the purpose that has not expired.
CachedGrant(purpose) ==
    LET cached == consent_cache[cache_key(PipelineUser, PipelineProfile, purpose)]
    IN  cached # NoneV /\ The(cached).granted /\ ~_is_expired(The(cached), now)

\* C37: a verification that finds the store absent or its lookup failing
\* grants only what unexpired granted cache entries cover, and otherwise
\* answers granted = false with status not_requested; the run then ends
\* with CONSENT_REQUIRED and calls neither retrieval, routing nor
\* generation.  With an empty cache no such run gets past the consent gate.
C37_ConsentFailsClosed ==
    (loc.consent_check # NoneV /\ StoreUnavailable) =>
        LET consent_check == The(loc.consent_check)
            purpose == _map_capability_to_purpose(The(loc.capability_result).capability)
        IN  /\ consent_check.granted <=> (CachedGrant(ASTRA_USAGE) /\ \A p \in purpose : CachedGrant(p))
            /\ ~consent_check.granted =>
                /\ consent_check.status = "not_requested"
                /\ pc = "returned"
                /\ The(resp).capability = "CONSENT_REQUIRED"
                /\ audit_log.blocked_reason = {"CONSENT_REQUIRED"}
                /\ \A call \in {"retrieve", "route", "generate"} : ~Called(call)

\* A run without a store that passed the safety and rules gates and was
\* answered CONSENT_REQUIRED.
C37_Witness ==
    /\ pc = "returned"
    /\ ~svc.db
    /\ \A k \in DOMAIN consent_cache : consent_cache[k] = NoneV
    /\ loc.consent_check # NoneV
    /\ The(loc.rules_check).allowed
    /\ The(loc.consent_check).status = "not_requested"
    /\ The(resp).capability = "CONSENT_REQUIRED"

\* A run whose lookup failed and that was granted from the cache.
C37_WitnessCached ==
    /\ "consent_lookup_error" \in Range(calls)
    /\ loc.consent_check # NoneV
    /\ The(loc.consent_check).granted
    /\ Called("route")

\* A run whose lookup failed after the cached grant had expired.
C37_WitnessExpired ==
    /\ "consent_lookup_error" \in Range(calls)
    /\ consent_cache[cache_key(PipelineUser, PipelineProfile, ASTRA_USAGE)] # NoneV
    /\ loc.consent_check # NoneV
    /\ ~The(loc.consent_check).granted

\* ---------------------------------------------------------------------
\* The rows of the similarity index and the metadata map (SpecMemory).
\* Every metadata key of a profile is a row of the profile's index, the
\* vector of that row is the embedding of the key's content, and no memory
\* id stands under two keys.
RowsConsistent ==
    \A profile_id \in MemProfiles :
        LET md == Metadata(mem, profile_id)
            index == Vectors(mem, profile_id)
        IN  /\ \A i \in DOMAIN md :
                /\ i \in 0..(Len(index) - 1)
                /\ index[i + 1] = _generate_embedding(md[i].content)
            /\ \A i, j \in DOMAIN md : md[i].memory_id = md[j].memory_id => i = j

\* A store_memory call that succeeds adds one vector after the rows of the
\* profile's index and enters the new memory under the number of that row,
\* which no entry of the metadata has; every other entry, the rows before
\* it and the other profiles stay as they were.
StoreTakesNewRow ==
    (arg = NoneV /\ MemoryCall(arg', "store") /\ The(res').success) =>
        LET profile_id == The(arg').profile_id
            md == Metadata(mem, profile_id)
            after == Metadata(mem', profile_id)
            index == Vectors(mem, profile_id)
            row == Len(index)
        IN  /\ Len(Vectors(mem', profile_id)) = row + 1
            /\ SubSeq(Vectors(mem', profile_id), 1, row) = index
            /\ row \notin DOMAIN md
            /\ DOMAIN after = DOMAIN md \cup {row}
            /\ after[row].memory_id = The(The(res').memory_id)
            /\ \A i \in DOMAIN md : after[i] = md[i]
            /\ \A other \in MemProfiles \ {profile_id} :
                /\ mem'.metadata[other] = mem.metadata[other]
                /\ mem'.indexes[other] = mem.indexes[other]

\* C38: after any sequence of store_memory, delete_memory and
\* clear_profile_memory the metadata map and the index of every profile are
\* consistent, and a new memory takes a row of its own in the index of its
\* profile: never the row of a memory stored before, be it live or
\* logically deleted, whose vector the index holds.
C38_IndexConsistent == []RowsConsistent /\ [][StoreTakesNewRow]_vars

\* A memory stored after the only other memory of its profile was deleted:
\* it stands under row 1, and row 0 keeps the vector of the deleted one.
C38_Witness ==
    /\ MemoryCall(arg, "store")
    /\ The(res).success
    /\ DOMAIN Metadata(mem, "p1") = {1}
    /\ Len(Vectors(mem, "p1")) = 2
    /\ trail.gone # {}

\* A memory stored after its whole profile was cleared, into a new index.
C38_WitnessCleared ==
    /\ MemoryCall(arg, "store")
    /\ The(res).success
    /\ The(arg).profile_id = "p1"
    /\ DOMAIN Metadata(mem, "p1") = {0}
    /\ Cardinality({r \in trail.issued : r.profile_id = "p1"}) = 2

(***************************************************************************)
(* GPUQuotaManager (quota_manager.py).  quota_usage maps <<user_id,        *)
(* profile_id>> to the usage entry of a date; a date is a day number.      *)
(***************************************************************************)
\* _get_usage, lines 180-193: the entry of the key when it is of the date,
\* else a new entry with nothing used.
_get_usage(quota_usage, user_id, profile_id, date) ==
    IF <<user_id, profile_id>> \in DOMAIN quota_usage /\ quota_usage[<<user_id, profile_id>>].date = date
        THEN quota_usage[<<user_id, profile_id>>]
    ELSE [date |-> date, used |-> 0]

\* check_quota, lines 51-119: [allowed, quota_used, quota_usage].
check_quota(quota_usage, daily_limit, user_id, profile_id, capability, gpu_cost, today) ==
    IF capability = "EMERGENCY_REDIRECT"
        THEN [allowed |-> TRUE, quota_used |-> 0, quota_usage |-> quota_usage]
    ELSE LET usage == _get_usage(quota_usage, user_id, profile_id, today)
         IN  IF usage.used + gpu_cost <= daily_limit
                 THEN LET charged == [usage EXCEPT !.used = @ + gpu_cost]
                      IN  [allowed |-> TRUE, quota_used |-> charged.used,
                           quota_usage |-> [k \in DOMAIN quota_usage \cup {<<user_id, profile_id>>} |-> IF k = <<user_id, profile_id>> THEN charged ELSE quota_usage[k]]]
             ELSE [allowed |-> FALSE, quota_used |-> usage.used, quota_usage |-> quota_usage]

\* consume_quota, lines 121-141.
consume_quota(quota_usage, daily_limit, user_id, profile_id, capability, gpu_cost, today) ==
    check_quota(quota_usage, daily_limit, user_id, profile_id, capability, gpu_cost, today)

\* ---------------------------------------------------------------------
\* One GPUQuotaManager serving operations one after the other: the caller
\* asks check_quota, runs the operation when it is allowed, and then calls
\* consume_quota with the same arguments.  mem holds quota_usage; trail the
\* stage of the operation and what its profile had used before it; the day
\* may change between operations.
QuotaRequests == [user_id : {"u1"}, profile_id : {"p1", "p2"}, capability : {"GENERAL_WELLNESS_CHAT", "EMERGENCY_REDIRECT"}, gpu_cost : {1, 2}]

Used(quota_usage, request, today) == _get_usage(quota_usage, request.user_id, request.profile_id, today).used

InitQuota ==
    /\ NoRun
    /\ cfg = Config(NoneV, NoneV, WellFormedLibrary)
    /\ svc = Services(FALSE, FALSE, FALSE, FALSE)
    /\ db = [k \in PipelineKeys |-> NoneV]
    /\ consent_cache = EmptyCache(PipelineKeys)
    /\ now = 0
    /\ ops = 0
    /\ arg = NoneV
    /\ res = NoneV
    /\ trail = [stage |-> "idle", before |-> 0]
    /\ mem = << >>
    /\ tasks = << >>

CheckQuota ==
    /\ trail.stage = "idle"
    /\ ops < MaxChecks
    /\ \E request \in QuotaRequests :
        LET checked == check_quota(mem, DailyLimit, request.user_id, request.profile_id, request.capability, request.gpu_cost, now)
        IN  /\ mem' = checked.quota_usage
            /\ arg' = {request}
            /\ res' = {[allowed |-> checked.allowed]}
            /\ trail' = [stage |-> "checked", before |-> Used(mem, request, now)]
    /\ ops' = ops + 1
    /\ UNCHANGED <<cfg, svc, run_vars, consent_vars, tasks>>

ConsumeQuota ==
    /\ trail.stage = "checked"
    /\ The(res).allowed
    /\ LET request == The(arg)
           consumed == consume_quota(mem, DailyLimit, request.user_id, request.profile_id, request.capability, request.gpu_cost, now)
       IN  /\ mem' = consumed.quota_usage
           /\ res' = {[allowed |-> consumed.allowed]}
           /\ trail' = [trail EXCEPT !.stage = "consumed"]
    /\ UNCHANGED <<cfg, svc, run_vars, consent_vars, ops, arg, tasks>>

\* The operation is over: refused by check_quota, or charged.
FinishQuota ==
    /\ \/ trail.stage = "consumed"
       \/ trail.stage = "checked" /\ ~The(res).allowed
    /\ arg' = NoneV
    /\ res' = NoneV
    /\ trail' = [stage |-> "idle", before |-> 0]
    /\ UNCHANGED <<cfg, svc, run_vars, consent_vars, ops, mem, tasks>>

\* Midnight passes between two operations.
NextDay ==
    /\ trail.stage = "idle"
    /\ now < MaxNow
    /\ now' = now + 1
    /\ UNCHANGED <<cfg, svc, run_vars, consent_cache, db, unit_vars>>

NextQuota ==
    \/ CheckQuota
    \/ ConsumeQuota
    \/ FinishQuota
    \/ NextDay

SpecQuota == InitQuota /\ [][NextQuota]_vars

\* C39: check_quota leaves the used count as it is, consume_quota after an
\* allowed check raises it by the cost of the operation, so that an
\* operation of cost c is charged c; used never exceeds daily_limit, a
\* refused check leaves used unchanged, and EMERGENCY_REDIRECT is never
\* charged.
C39_ChargedOncePerOperation ==
    /\ \A k \in DOMAIN mem : mem[k].used <= DailyLimit
    /\ trail.stage = "checked" => Used(mem, The(arg), now) = trail.before
    /\ trail.stage = "consumed" =>
        Used(mem, The(arg), now) = trail.before + (IF The(arg).capability = "EMERGENCY_REDIRECT" THEN 0 ELSE The(arg).gpu_cost)

====
